---- MODULE Spec2Model ----
(***************************************************************************)
(* The transcript logger of cuga-demo-app (src/utils/output_logger.py) and *)
(* the entry points that drive it, as a state machine.                     *)
(*                                                                         *)
(* A file is the sequence of the strings handed to f.write, in order; the  *)
(* strings themselves are built exactly as the f-strings of the source     *)
(* build them.  Each  with open(...)  of the source is one block: the      *)
(* writes it makes and the exception, if any, its body raises.             *)
(***************************************************************************)
EXTENDS Integers, Sequences, FiniteSets, TLC

VARIABLES
    clock,      \* the wall clock at the last datetime.now(), in seconds
    outdir,     \* the output directory: "absent", "present" or "uncreatable"
    files,      \* the files of the output directory: path -> written chunks
    logger,     \* handle -> the OutputLogger object the caller holds
    calls,      \* every call made so far, in issue order, with its outcome
    nfaults,    \* how many I/O faults the environment has injected
    run,        \* the entry point being run: its script, position and status
    agent       \* the CUGAAPIAgent object the caller holds: config and history

vars == <<clock, outdir, files, logger, calls, nfaults, run, agent>>

(***************************************************************************)
(* Bounds of the exploration.                                              *)
(***************************************************************************)
MaxCalls == 3
MaxClock == 1
MaxFaults == 1

OutputDir == "output"
ScriptNames == {"demo"}

(***************************************************************************)
(* datetime.now().strftime: the two formats the logger uses.  The clock    *)
(* counts seconds from 2024-01-01 00:00:00.                                *)
(***************************************************************************)
Pad2(n) == IF n < 10 THEN "0" \o ToString(n) ELSE ToString(n)

strftime_file(t) ==
    "20240101_" \o Pad2((t \div 3600) % 24) \o Pad2((t \div 60) % 60) \o Pad2(t % 60)

strftime_human(t) ==
    "2024-01-01 " \o Pad2((t \div 3600) % 24) \o ":" \o Pad2((t \div 60) % 60)
        \o ":" \o Pad2(t % 60)

(***************************************************************************)
(* Python values handed to log_data: every node is [t, v, items].          *)
(*   str, int   v is the text / the decimal digits                         *)
(*   obj        a value json does not know (datetime, Path); v is str(obj) *)
(*   list, tuple  items are the elements                                   *)
(*   dict       items are pairs; a pair's items are <<key, value>>         *)
(***************************************************************************)
PyStr(s) == [t |-> "str", v |-> s, items |-> <<>>]
PyInt(s) == [t |-> "int", v |-> s, items |-> <<>>]
PyObj(s) == [t |-> "obj", v |-> s, items |-> <<>>]
PyList(xs) == [t |-> "list", v |-> "", items |-> xs]
PyTuple(xs) == [t |-> "tuple", v |-> "", items |-> xs]
PyPair(k, x) == [t |-> "pair", v |-> "", items |-> <<k, x>>]
PyDict(ps) == [t |-> "dict", v |-> "", items |-> ps]

RECURSIVE Spaces(_)
Spaces(n) == IF n = 0 THEN "" ELSE " " \o Spaces(n - 1)

RECURSIVE Serializable(_)
Serializable(x) ==
    CASE x.t \in {"str", "int", "obj"} -> TRUE
      [] x.t \in {"list", "tuple"} ->
            \A i \in 1..Len(x.items) : Serializable(x.items[i])
      [] x.t = "dict" ->
            \A i \in 1..Len(x.items) :
                /\ x.items[i].items[1].t \in {"str", "int"}
                /\ Serializable(x.items[i].items[2])
      [] OTHER -> FALSE

RECURSIVE Encode(_, _), EncodeItems(_, _, _)
\* an encoder that writes numbers the way default=str writes objects: quoted
Encode_quoted(x, level) ==
    CASE x.t \in {"str", "int", "obj"} -> "\"" \o x.v \o "\""
      [] x.t \in {"list", "tuple"} ->
            IF x.items = <<>> THEN "[]"
            ELSE "[\n" \o EncodeItems(x.items, 1, level + 1)
                    \o "\n" \o Spaces(2 * level) \o "]"
      [] x.t = "dict" ->
            IF x.items = <<>> THEN "{}"
            ELSE "{\n" \o EncodeItems(x.items, 1, level + 1)
                    \o "\n" \o Spaces(2 * level) \o "}"
      [] x.t = "pair" ->
            "\"" \o x.items[1].v \o "\": " \o Encode(x.items[2], level)

Encode(x, level) ==
    CASE x.t = "str" -> "\"" \o x.v \o "\""
      [] x.t = "int" -> x.v
      [] x.t = "obj" -> "\"" \o x.v \o "\""
      [] x.t \in {"list", "tuple"} ->
            IF x.items = <<>> THEN "[]"
            ELSE "[\n" \o EncodeItems(x.items, 1, level + 1)
                    \o "\n" \o Spaces(2 * level) \o "]"
      [] x.t = "dict" ->
            IF x.items = <<>> THEN "{}"
            ELSE "{\n" \o EncodeItems(x.items, 1, level + 1)
                    \o "\n" \o Spaces(2 * level) \o "}"
      [] x.t = "pair" ->
            "\"" \o x.items[1].v \o "\": " \o Encode(x.items[2], level)

EncodeItems(xs, i, level) ==
    Spaces(2 * level) \o Encode(xs[i], level)
        \o (IF i = Len(xs) THEN "" ELSE ",\n" \o EncodeItems(xs, i + 1, level))

\* json.dumps(data, indent=2, default=str): the text, or the TypeError
json_dumps(data) ==
    IF Serializable(data)
    THEN [ok |-> TRUE, text |-> Encode(data, 0)]
    ELSE [ok |-> FALSE, text |-> ""]

(***************************************************************************)
(* One  with open(self.filepath, 'a') as f:  block: the strings its body   *)
(* passes to f.write before it ends, and the exception its body raises.    *)
(***************************************************************************)
Block(chunks, exc) == [chunks |-> chunks, exc |-> exc]

\* The markdown fence, three backquotes in the source; a TLA+ string cannot
\* hold a backquote, so the fence is written with three apostrophes.
Fence == "'''"

None == <<>>
Some(s) == <<s>>
Truthy(opt) == opt # None /\ opt[1] # ""

\* log_section without the test of the body: an empty body is written too
log_section_always(title, content) ==
    << Block(<<"## " \o title \o "\n\n", content \o "\n\n">>, "none") >>

log_section(title, content) ==
    << Block(<<"## " \o title \o "\n\n">>
                \o (IF content # "" THEN <<content \o "\n\n">> ELSE <<>>),
             "none") >>

log_text(text) == << Block(<<text \o "\n\n">>, "none") >>

log_code(code, language) ==
    << Block(<<Fence \o language \o "\n" \o code \o "\n" \o Fence \o "\n\n">>, "none") >>

\* log_data that tests 'title is not None' in place of the truth of title
log_data_is_not_none(data, title) ==
    (IF title # None THEN log_section(title[1], "") ELSE <<>>)
    \o (LET d == json_dumps(data) IN
        IF d.ok
        THEN << Block(<<Fence \o "json\n", d.text, "\n" \o Fence \o "\n\n">>, "none") >>
        ELSE << Block(<<Fence \o "json\n">>, "TypeError") >>)

log_data(data, title) ==
    (IF Truthy(title) THEN log_section(title[1], "") ELSE <<>>)
    \o (LET d == json_dumps(data) IN
        IF d.ok
        THEN << Block(<<Fence \o "json\n", d.text, "\n" \o Fence \o "\n\n">>, "none") >>
        ELSE << Block(<<Fence \o "json\n">>, "TypeError") >>)

\* str(x) of a str or int value, as the f-strings and str(cell) apply it
str(x) == x.v

RECURSIVE Join(_, _, _)
Join(sep, xs, i) ==
    IF i > Len(xs) THEN ""
    ELSE xs[i] \o (IF i = Len(xs) THEN "" ELSE sep \o Join(sep, xs, i + 1))

\* log_table that pairs every row with the headers: zip(headers, row)
log_table_zip(headers, rows) ==
    << Block(
        << "| " \o Join(" | ", [i \in 1..Len(headers) |-> str(headers[i])], 1) \o " |\n",
           "| " \o Join(" | ", [i \in 1..Len(headers) |-> "---"], 1) \o " |\n" >>
        \o [r \in 1..Len(rows) |->
              "| " \o Join(" | ",
                           [c \in 1..(IF Len(rows[r]) < Len(headers)
                                      THEN Len(rows[r]) ELSE Len(headers))
                              |-> str(rows[r][c])], 1) \o " |\n"]
        \o << "\n" >>,
        "none") >>

log_table(headers, rows) ==
    << Block(
        << "| " \o Join(" | ", [i \in 1..Len(headers) |-> str(headers[i])], 1) \o " |\n",
           "| " \o Join(" | ", [i \in 1..Len(headers) |-> "---"], 1) \o " |\n" >>
        \o [r \in 1..Len(rows) |->
              "| " \o Join(" | ", [c \in 1..Len(rows[r]) |-> str(rows[r][c])], 1) \o " |\n"]
        \o << "\n" >>,
        "none") >>

\* log_list that numbers from 0: enumerate(items)
log_list_from0(items, ordered) ==
    << Block(
        [i \in 1..Len(items) |->
            IF ordered THEN ToString(i - 1) \o ". " \o str(items[i]) \o "\n"
                       ELSE "- " \o str(items[i]) \o "\n"]
        \o << "\n" >>,
        "none") >>

log_list(items, ordered) ==
    << Block(
        [i \in 1..Len(items) |->
            IF ordered THEN ToString(i) \o ". " \o str(items[i]) \o "\n"
                       ELSE "- " \o str(items[i]) \o "\n"]
        \o << "\n" >>,
        "none") >>

\* The three status markers of log_result; the source writes them as the
\* emoji U+2705, U+274C and U+2139, which a TLA+ string cannot hold.
MarkSuccess == "[check]"
MarkError == "[cross]"
MarkInfo == "[info]"

\* result.get(key, default) and 'key in result' on a dict held as a record
Get(result, key, default) == IF key \in DOMAIN result THEN result[key] ELSE default

\* log_result that logs the data without its title
log_result_untitled(result) ==
    LET status == Get(result, "status", "unknown")
        status_emoji == IF status = "success" THEN MarkSuccess
                        ELSE IF status = "error" THEN MarkError ELSE MarkInfo
    IN  log_section("Execution Result", "")
        \o log_text(status_emoji \o " **Status:** " \o status)
        \o (IF "message" \in DOMAIN result
            THEN log_text("**Message:** " \o result["message"]) ELSE <<>>)
        \o (IF "data" \in DOMAIN result
            THEN log_data(result["data"], None) ELSE <<>>)
        \o (IF "execution_time" \in DOMAIN result
            THEN log_text("**Execution Time:** " \o result["execution_time"]) ELSE <<>>)

\* log_result with result.get('message') in place of the test for the key
log_result_get(result) ==
    LET status == Get(result, "status", "unknown")
        status_emoji == IF status = "success" THEN MarkSuccess
                        ELSE IF status = "error" THEN MarkError ELSE MarkInfo
    IN  log_section("Execution Result", "")
        \o log_text(status_emoji \o " **Status:** " \o status)
        \o log_text("**Message:** " \o Get(result, "message", "None"))
        \o (IF "data" \in DOMAIN result
            THEN log_data(result["data"], Some("Result Data")) ELSE <<>>)
        \o (IF "execution_time" \in DOMAIN result
            THEN log_text("**Execution Time:** " \o result["execution_time"]) ELSE <<>>)

log_result(result) ==
    LET status == Get(result, "status", "unknown")
        status_emoji == IF status = "success" THEN MarkSuccess
                        ELSE IF status = "error" THEN MarkError ELSE MarkInfo
    IN  log_section("Execution Result", "")
        \o log_text(status_emoji \o " **Status:** " \o status)
        \o (IF "message" \in DOMAIN result
            THEN log_text("**Message:** " \o result["message"]) ELSE <<>>)
        \o (IF "data" \in DOMAIN result
            THEN log_data(result["data"], Some("Result Data")) ELSE <<>>)
        \o (IF "execution_time" \in DOMAIN result
            THEN log_text("**Execution Time:** " \o result["execution_time"]) ELSE <<>>)

\* finalize that forgets the generated-at line
finalize_bare(now) == << Block(<< "\n---\n\n" >>, "none") >>

finalize(now) ==
    << Block(<< "\n---\n\n",
                "*Log generated at " \o strftime_human(now) \o "*\n" >>, "none") >>

\* get_filepath that answers the file name instead of the path
get_filepath_name(self) == self.filename

\* get_filepath: a read, no block
get_filepath(self) == self.filepath

\* the header _initialize_file writes, with the clock read it makes
initialize_file(script_name, now) ==
    Block(<< "# " \o script_name \o " - Execution Log\n\n",
             "**Timestamp:** " \o strftime_human(now) \o "\n\n",
             "---\n\n" >>, "none")

(***************************************************************************)
(* The file system under the blocks.  A fault is the environment making    *)
(* one block fail: block number 'at' of the call raises OSError after      *)
(* 'wrote' of its chunks reached the file (0: the open itself failed or    *)
(* nothing was flushed; -1, for the constructor's 'w' open only: the open  *)
(* failed before truncating).                                              *)
(***************************************************************************)
NoFault == [at |-> 0, wrote |-> 0]

Take(xs, k) == SubSeq(xs, 1, k)

WriteFile(fs, path, content) ==
    [q \in DOMAIN fs \cup {path} |-> IF q = path THEN content ELSE fs[q]]

\* the append opened with mode 'w'
open_append_w(fs, path, chunks) == WriteFile(fs, path, chunks)

\* open(path, 'a') ... f.write(chunk)* ... close
open_append(fs, path, chunks) ==
    WriteFile(fs, path, (IF path \in DOMAIN fs THEN fs[path] ELSE <<>>) \o chunks)

\* the header written with mode 'a'
open_write_a(fs, path, chunks) ==
    WriteFile(fs, path, (IF path \in DOMAIN fs THEN fs[path] ELSE <<>>) \o chunks)

\* open(path, 'w') ... f.write(chunk)* ... close
open_write(fs, path, chunks) == WriteFile(fs, path, chunks)

\* a block whose last write stays in the buffer when the call returns
with_append_buffered(fs, path, block, wrote) ==
    IF wrote >= 0
    THEN [files |-> WriteFile(fs, path, fs[path] \o Take(block.chunks, wrote)),
          exc |-> "OSError"]
    ELSE [files |-> WriteFile(fs, path,
                        fs[path] \o Take(block.chunks, Len(block.chunks) - 1)),
          exc |-> block.exc]

\* one with-block run against the file system: the buffered writes reach the
\* file when the block is left, also when its body raised
with_append(fs, path, block, wrote) ==
    IF wrote >= 0
    THEN [files |-> open_append(fs, path, Take(block.chunks, wrote)), exc |-> "OSError"]
    ELSE [files |-> open_append(fs, path, block.chunks), exc |-> block.exc]

\* a call that catches the exception of a block and carries on
RECURSIVE RunBlocks_swallow(_, _, _, _, _)
RunBlocks_swallow(fs, path, blocks, i, fault) ==
    IF i > Len(blocks) THEN [files |-> fs, exc |-> "none"]
    ELSE LET r == IF fault.at = i
                  THEN [files |-> WriteFile(fs, path,
                                     fs[path] \o Take(blocks[i].chunks, fault.wrote))]
                  ELSE [files |-> WriteFile(fs, path, fs[path] \o blocks[i].chunks)]
         IN  RunBlocks_swallow(r.files, path, blocks, i + 1, fault)

\* the statements of one call in sequence: an exception ends the call
RECURSIVE RunBlocks(_, _, _, _, _)
RunBlocks(fs, path, blocks, i, fault) ==
    IF i > Len(blocks) THEN [files |-> fs, exc |-> "none"]
    ELSE LET r == with_append(fs, path, blocks[i],
                              IF fault.at = i THEN fault.wrote ELSE -1)
         IN  IF r.exc # "none" THEN r
             ELSE RunBlocks(r.files, path, blocks, i + 1, fault)

FaultsOf(blocks) ==
    {NoFault} \cup
    (IF nfaults < MaxFaults
     THEN UNION { {[at |-> i, wrote |-> k] : k \in 0..(Len(blocks[i].chunks) - 1)}
                  : i \in 1..Len(blocks) }
     ELSE {})

(***************************************************************************)
(* OutputLogger.__init__: mkdir(exist_ok=True), the filename from the      *)
(* first clock read t1, then _initialize_file with the second read t2.     *)
(* The result is the object, the directory and files afterwards, and the   *)
(* exception raised, if any.                                               *)
(***************************************************************************)
NoLogger ==
    [state |-> "none", script_name |-> "", output_dir |-> "", filename |-> "",
     filepath |-> ""]

\* mkdir without exist_ok: an existing directory is an error
mkdir_strict(dir) ==
    IF dir = "absent" THEN [ok |-> TRUE, dir |-> "present"]
    ELSE [ok |-> FALSE, dir |-> dir]

\* Path.mkdir(exist_ok=True): the directory afterwards, or the OSError
mkdir(dir) ==
    CASE dir = "present" -> [ok |-> TRUE, dir |-> "present"]
      [] dir = "absent" -> [ok |-> TRUE, dir |-> "present"]
      [] OTHER -> [ok |-> FALSE, dir |-> dir]

\* a constructor that names the file after the script alone, no timestamp
OutputLogger_nostamp(script_name, t1, t2, dir, fs, fault) ==
    LET made == mkdir(dir)
        filename == script_name \o ".md"
        filepath == OutputDir \o "/" \o filename
        self == [state |-> "live", script_name |-> script_name,
                 output_dir |-> OutputDir, filename |-> filename,
                 filepath |-> filepath]
        header == initialize_file(script_name, t2)
    IN  IF ~made.ok \/ fault.at = 1
        THEN [self |-> NoLogger, dir |-> made.dir, files |-> fs, exc |-> "OSError"]
        ELSE [self |-> self, dir |-> made.dir,
              files |-> open_write(fs, filepath, header.chunks), exc |-> "none"]

\* a constructor that steps aside when the file is there: a suffix is added
OutputLogger_unique(script_name, t1, t2, dir, fs, fault) ==
    LET made == mkdir(dir)
        plain == script_name \o "_" \o strftime_file(t1) \o ".md"
        filename == IF (OutputDir \o "/" \o plain) \in DOMAIN fs
                    THEN script_name \o "_" \o strftime_file(t1) \o "_1.md" ELSE plain
        filepath == OutputDir \o "/" \o filename
        self == [state |-> "live", script_name |-> script_name,
                 output_dir |-> OutputDir, filename |-> filename,
                 filepath |-> filepath]
        header == initialize_file(script_name, t2)
    IN  IF ~made.ok \/ fault.at = 1
        THEN [self |-> NoLogger, dir |-> made.dir, files |-> fs, exc |-> "OSError"]
        ELSE [self |-> self, dir |-> made.dir,
              files |-> open_write(fs, filepath, header.chunks), exc |-> "none"]

\* a constructor that writes the header first and names the file afterwards:
\* the first clock read goes to the header, the second to the file name
OutputLogger_header_first(script_name, t1, t2, dir, fs, fault) ==
    LET made == mkdir(dir)
        filename == script_name \o "_" \o strftime_file(t2) \o ".md"
        filepath == OutputDir \o "/" \o filename
        self == [state |-> "live", script_name |-> script_name,
                 output_dir |-> OutputDir, filename |-> filename,
                 filepath |-> filepath]
        header == initialize_file(script_name, t1)
    IN  IF ~made.ok \/ fault.at = 1
        THEN [self |-> NoLogger, dir |-> made.dir, files |-> fs, exc |-> "OSError"]
        ELSE [self |-> self, dir |-> made.dir,
              files |-> open_write(fs, filepath, header.chunks), exc |-> "none"]

OutputLogger(script_name, t1, t2, dir, fs, fault) ==
    LET made == mkdir(dir)
        filename == script_name \o "_" \o strftime_file(t1) \o ".md"
        filepath == OutputDir \o "/" \o filename
        self == [state |-> "live", script_name |-> script_name,
                 output_dir |-> OutputDir, filename |-> filename,
                 filepath |-> filepath]
        header == initialize_file(script_name, t2)
    IN  IF ~made.ok
        THEN [self |-> NoLogger, dir |-> made.dir, files |-> fs, exc |-> "OSError"]
        ELSE IF fault.at = 1 /\ fault.wrote = -1
        THEN [self |-> NoLogger, dir |-> made.dir, files |-> fs, exc |-> "OSError"]
        ELSE IF fault.at = 1
        THEN [self |-> NoLogger, dir |-> made.dir,
              files |-> open_write(fs, filepath, Take(header.chunks, fault.wrote)),
              exc |-> "OSError"]
        ELSE [self |-> self, dir |-> made.dir,
              files |-> open_write(fs, filepath, header.chunks), exc |-> "none"]

CreateFaults ==
    {NoFault} \cup
    (IF nfaults < MaxFaults THEN {[at |-> 1, wrote |-> k] : k \in -1..2} ELSE {})

Handles == DOMAIN logger

Event(h, op, args, fault, exc) ==
    [h |-> h, op |-> op, args |-> args, fault |-> fault, exc |-> exc]

Charge(fault) == nfaults' = nfaults + (IF fault = NoFault THEN 0 ELSE 1)

(***************************************************************************)
(* Inputs.                                                                 *)
(***************************************************************************)
Titles == {"T"}
Bodies == {"", "body"}
GoodData == PyDict(<< PyPair(PyStr("n"), PyInt("1")) >>)
BadKeyData == PyDict(<< PyPair(PyTuple(<< PyInt("1"), PyInt("2") >>), PyInt("1")) >>)
DataInputs ==
    { [data |-> GoodData, title |-> None],
      [data |-> GoodData, title |-> Some("D")],
      [data |-> BadKeyData, title |-> Some("D")] }
Headers == << PyStr("A"), PyStr("B") >>
RowSets == { << << PyStr("1"), PyInt("2") >>, << PyStr("3") >> >> }
Items == << PyStr("x"), PyStr("y") >>
Results ==
    { [status |-> "success", data |-> GoodData, execution_time |-> "1s"],
      [message |-> "m", data |-> BadKeyData] }

(***************************************************************************)
(* Actions: one per operation of the logger.                               *)
(***************************************************************************)
\* create_logger(script_name) / OutputLogger(script_name): the constructor
\* reads the clock twice, at t1 for the file name and at t2 for the header
DoCreate(h, script_name, t1, t2, fault) ==
        /\ logger[h].state = "none"
        /\ LET r == OutputLogger(script_name, t1, t2, outdir, files, fault)
           IN  /\ logger' = [logger EXCEPT ![h] =
                                IF r.exc = "none" THEN r.self
                                ELSE [NoLogger EXCEPT !.state = "failed"]]
               /\ outdir' = r.dir
               /\ files' = r.files
               /\ calls' = Append(calls,
                      Event(h, "OutputLogger",
                            [script_name |-> script_name, t1 |-> t1,
                             t2 |-> t2, dir |-> outdir],
                            IF mkdir(outdir).ok THEN fault ELSE NoFault, r.exc))
               /\ nfaults' = nfaults +
                      (IF mkdir(outdir).ok /\ fault # NoFault THEN 1 ELSE 0)
        /\ clock' = t2
        /\ UNCHANGED agent

Create(h) ==
    \E script_name \in ScriptNames, fault \in CreateFaults :
        \E t1 \in clock..MaxClock :
            \E t2 \in t1..MaxClock :
                /\ Len(calls) < MaxCalls
                /\ DoCreate(h, script_name, t1, t2, fault)
                /\ UNCHANGED run

\* a transcript that finalize closes: a later call raises and writes nothing
DoCall_locked(h, op, args, blocks, fault) ==
    /\ logger[h].state = "live"
    /\ LET closed == \E i \in 1..Len(calls) :
                        calls[i].h = h /\ calls[i].op = "finalize" /\ calls[i].exc = "none"
           r == IF closed THEN [files |-> files, exc |-> "ValueError"]
                ELSE RunBlocks(files, logger[h].filepath, blocks, 1, fault)
       IN  /\ files' = r.files
           /\ calls' = Append(calls, Event(h, op, args, fault, r.exc))
    /\ Charge(fault)
    /\ UNCHANGED <<outdir, logger, agent>>

\* a logging call: its blocks run against the file of self.filepath
DoCall(h, op, args, blocks, fault) ==
    /\ logger[h].state = "live"
    /\ LET r == RunBlocks(files, logger[h].filepath, blocks, 1, fault)
       IN  /\ files' = r.files
           /\ calls' = Append(calls, Event(h, op, args, fault, r.exc))
    /\ Charge(fault)
    /\ UNCHANGED <<outdir, logger, agent>>

Call(h, op, args, blocks, fault) ==
    /\ Len(calls) < MaxCalls
    /\ DoCall(h, op, args, blocks, fault)
    /\ UNCHANGED <<clock, run>>

LogSection(h) ==
    \E title \in Titles, content \in Bodies :
        \E fault \in FaultsOf(log_section(title, content)) :
            Call(h, "log_section", [title |-> title, content |-> content],
                 log_section(title, content), fault)

LogText(h) ==
    \E text \in {"x"} :
        \E fault \in FaultsOf(log_text(text)) :
            Call(h, "log_text", [text |-> text], log_text(text), fault)

LogCode(h) ==
    \E code \in {"c"}, language \in {"python"} :
        \E fault \in FaultsOf(log_code(code, language)) :
            Call(h, "log_code", [code |-> code, language |-> language],
                 log_code(code, language), fault)

LogData(h) ==
    \E in \in DataInputs :
        \E fault \in FaultsOf(log_data(in.data, in.title)) :
            Call(h, "log_data", [data |-> in.data, title |-> in.title],
                 log_data(in.data, in.title), fault)

LogTable(h) ==
    \E rows \in RowSets :
        \E fault \in FaultsOf(log_table(Headers, rows)) :
            Call(h, "log_table", [headers |-> Headers, rows |-> rows],
                 log_table(Headers, rows), fault)

LogList(h) ==
    \E ordered \in BOOLEAN :
        \E fault \in FaultsOf(log_list(Items, ordered)) :
            Call(h, "log_list", [items |-> Items, ordered |-> ordered],
                 log_list(Items, ordered), fault)

LogResult(h) ==
    \E result \in Results :
        \E fault \in FaultsOf(log_result(result)) :
            Call(h, "log_result", [result |-> result], log_result(result), fault)

\* finalize reads the clock
Finalize(h) ==
    \E now \in clock..MaxClock :
        \E fault \in FaultsOf(finalize(now)) :
            /\ Len(calls) < MaxCalls
            /\ DoCall(h, "finalize", [now |-> now], finalize(now), fault)
            /\ clock' = now
            /\ UNCHANGED run

DoGetFilepath(h) ==
    /\ logger[h].state = "live"
    /\ calls' = Append(calls,
            Event(h, "get_filepath", [ret |-> get_filepath(logger[h])], NoFault, "none"))
    /\ UNCHANGED <<outdir, files, logger, nfaults, agent>>

GetFilepath(h) ==
    /\ Len(calls) < MaxCalls
    /\ DoGetFilepath(h)
    /\ UNCHANGED <<clock, run>>

\* a transcript left by an earlier process of the same name in second 0
StalePath(script_name) == OutputDir \o "/" \o script_name \o "_" \o strftime_file(0) \o ".md"

NoRun == [name |-> "none", script |-> <<>>, pc |-> 0, status |-> "idle"]

\* no CUGAAPIAgent has been constructed
NoAgent == [state |-> "none", config |-> << >>, execution_history |-> << >>]

InitWorld(names) ==
    /\ clock = 0
    /\ outdir \in {"absent", "present", "uncreatable"}
    /\ files \in (IF outdir = "present"
                  THEN { WriteFile(<<>>, StalePath(n), <<"stale\n">>) : n \in names }
                  ELSE { <<>> })
    /\ logger = [h \in {1} |-> NoLogger]
    /\ calls = <<>>
    /\ nfaults = 0
    /\ run = NoRun
    /\ agent = NoAgent

Init == InitWorld(ScriptNames)

Next ==
    \/ \E h \in Handles : Create(h)
    \/ \E h \in Handles : LogSection(h)
    \/ \E h \in Handles : LogText(h)
    \/ \E h \in Handles : LogCode(h)
    \/ \E h \in Handles : LogData(h)
    \/ \E h \in Handles : LogTable(h)
    \/ \E h \in Handles : LogList(h)
    \/ \E h \in Handles : LogResult(h)
    \/ \E h \in Handles : Finalize(h)
    \/ \E h \in Handles : GetFilepath(h)

Spec == Init /\ [][Next]_vars

(***************************************************************************)
(* Reading the record of calls.                                            *)
(***************************************************************************)
IsPrefix(a, b) == Len(a) <= Len(b) /\ SubSeq(b, 1, Len(a)) = a

RECURSIVE Flatten(_, _)
Flatten(blocks, i) ==
    IF i > Len(blocks) THEN <<>> ELSE blocks[i].chunks \o Flatten(blocks, i + 1)

\* the blocks a recorded call runs
BlocksOf(e) ==
    CASE e.op = "log_section" -> log_section(e.args.title, e.args.content)
      [] e.op = "log_text" -> log_text(e.args.text)
      [] e.op = "log_code" -> log_code(e.args.code, e.args.language)
      [] e.op = "log_data" -> log_data(e.args.data, e.args.title)
      [] e.op = "log_table" -> log_table(e.args.headers, e.args.rows)
      [] e.op = "log_list" -> log_list(e.args.items, e.args.ordered)
      [] e.op = "log_result" -> log_result(e.args.result)
      [] e.op = "finalize" -> finalize(e.args.now)
      [] OTHER -> <<>>

\* what a call put in the file: every block up to and including the first
\* one that fails, and of that one the part written before the failure
RECURSIVE Emitted(_, _, _)
Emitted(blocks, i, fault) ==
    IF i > Len(blocks) THEN <<>>
    ELSE IF fault.at = i THEN Take(blocks[i].chunks, fault.wrote)
    ELSE blocks[i].chunks
            \o (IF blocks[i].exc # "none" THEN <<>> ELSE Emitted(blocks, i + 1, fault))

Fails(e) ==
    \/ e.fault # NoFault
    \/ \E i \in 1..Len(BlocksOf(e)) : BlocksOf(e)[i].exc # "none"

LogOps ==
    {"log_section", "log_text", "log_code", "log_data", "log_table", "log_list",
     "log_result", "finalize"}

\* the construction of handle h in the record, and the path it assigned
CreatedAt(h) == CHOOSE i \in 1..Len(calls) : calls[i].h = h /\ calls[i].op = "OutputLogger"
CreatedPath(h) ==
    LET e == calls[CreatedAt(h)]
    IN  OutputDir \o "/" \o e.args.script_name \o "_" \o strftime_file(e.args.t1) \o ".md"

RECURSIVE WrittenSince(_, _)
WrittenSince(h, i) ==
    IF i > Len(calls) THEN <<>>
    ELSE (IF calls[i].h = h /\ calls[i].op \in LogOps
          THEN Emitted(BlocksOf(calls[i]), 1, calls[i].fault) ELSE <<>>)
         \o WrittenSince(h, i + 1)

Live(h) == logger[h].state = "live"

\* this step is a call on an existing transcript; Last is its record
CallStep == Len(calls') = Len(calls) + 1 /\ calls'[Len(calls')].op # "OutputLogger"
Last == calls'[Len(calls')]

\* C1: the file of a transcript is its header followed by what each call on
\* it wrote, in the order the calls were issued: the full rendering of every
\* call that returned (and, of a call that raised, the part it had written),
\* nothing reordered, dropped, duplicated, merged or held back.
C1_OrderingInvariant ==
    \A h \in Handles :
        Live(h) =>
            LET c == calls[CreatedAt(h)]
            IN  /\ logger[h].filepath \in DOMAIN files
                /\ files[logger[h].filepath] =
                       initialize_file(c.args.script_name, c.args.t2).chunks
                           \o WrittenSince(h, 1)

C1_Witness ==
    /\ Len(calls) = 3
    /\ Live(1)
    /\ calls[2].op = "log_result" /\ calls[2].exc = "none"
    /\ calls[3].op = "log_list" /\ calls[3].exc = "none"

\* C4: the transcript is append-only: over every call made on a transcript
\* after its construction, what each file held before the call is a prefix
\* of what it holds after it.
C4_AppendOnly ==
    [][ CallStep =>
            \A p \in DOMAIN files :
                p \in DOMAIN files' /\ IsPrefix(files[p], files'[p]) ]_vars

C4_Witness ==
    /\ Len(calls) = 3
    /\ calls[2].op = "log_table" /\ calls[2].exc = "none"
    /\ calls[3].op = "finalize" /\ calls[3].exc = "none"
    /\ Len(files[logger[1].filepath]) > 5

\* C5: right after a transcript is constructed for script name S, before any
\* further call, its file exists and holds exactly the title line
\* '# S - Execution Log', a timestamp line and the '---' separator, each
\* followed by a blank line.
C5_HeaderOnly ==
    \A h \in Handles :
        (Live(h) /\ \A i \in 1..Len(calls) : calls[i].h = h => i = CreatedAt(h)) =>
            /\ logger[h].filepath \in DOMAIN files
            /\ \E t \in 0..MaxClock :
                files[logger[h].filepath] =
                    << "# " \o logger[h].script_name \o " - Execution Log\n\n",
                       "**Timestamp:** " \o strftime_human(t) \o "\n\n",
                       "---\n\n" >>

C5_Witness ==
    /\ Len(calls) = 1
    /\ Live(1)
    /\ calls[1].args.dir = "absent"
    /\ Len(files[logger[1].filepath]) = 3

\* C6: constructing a transcript makes sure the output directory exists: an
\* absent directory is created, a present one is no error, and construction
\* then succeeds; when the directory cannot be created or the file cannot be
\* opened or written, construction raises and the caller gets no handle.
C6_CreateEnsuresDirectory ==
    \A i \in 1..Len(calls) :
        calls[i].op = "OutputLogger" =>
            LET e == calls[i]
            IN  /\ (e.args.dir \in {"absent", "present"} /\ e.fault = NoFault) =>
                       /\ e.exc = "none"
                       /\ outdir = "present"
                       /\ logger[e.h].state = "live"
                /\ (e.args.dir = "uncreatable" \/ e.fault # NoFault) =>
                       /\ e.exc # "none"
                       /\ logger[e.h].state = "failed"

C6_Witness ==
    /\ Len(calls) >= 1
    /\ calls[1].op = "OutputLogger"
    /\ calls[1].args.dir = "present"
    /\ calls[1].exc = "none"
    /\ outdir = "present"

\* C7: the file path is assigned at construction and no operation changes
\* it: over every step the object keeps its path, get_filepath answers the
\* path assigned at construction, and a call changes no file but the one at
\* that path.
C7_PathFixed ==
    [][ \A h \in Handles :
            Live(h) =>
                /\ logger'[h].filepath = logger[h].filepath
                /\ logger[h].filepath = CreatedPath(h)
                /\ (CallStep /\ Last.h = h) =>
                       /\ \A p \in DOMAIN files' \ {CreatedPath(h)} :
                              p \in DOMAIN files /\ files'[p] = files[p]
                       /\ Last.op = "get_filepath" => Last.args.ret = CreatedPath(h) ]_vars

C7_Witness ==
    /\ Len(calls) = 3
    /\ calls[2].op = "finalize" /\ calls[2].exc = "none"
    /\ calls[3].op = "get_filepath"
    /\ calls[3].args.ret = logger[1].filepath

\* C8: a write that fails during a call is raised to the caller of that
\* call: the call ends with the exception, nothing of the call is written
\* after the point of failure (no retry, no recovery), and in log_result the
\* primitives after the failing one are not written.
C8_FailurePropagates ==
    [][ (CallStep /\ Last.op \in LogOps /\ Fails(Last)) =>
            LET p == logger[Last.h].filepath
            IN  /\ Last.exc # "none"
                /\ files'[p] = files[p] \o Emitted(BlocksOf(Last), 1, Last.fault) ]_vars

C8_Witness ==
    /\ Len(calls) = 2
    /\ calls[2].op = "log_result"
    /\ calls[2].fault.at = 3
    /\ calls[2].exc = "OSError"
    /\ Len(files[logger[1].filepath]) = 5

\* the footers of a file: the timestamps of the '---' separators that are
\* directly followed by a 'Log generated at' line
IsFooterAt(content, i, t) ==
    /\ i + 1 <= Len(content)
    /\ content[i] = "\n---\n\n"
    /\ content[i + 1] = "*Log generated at " \o strftime_human(t) \o "*\n"

RECURSIVE Footers(_, _)
Footers(content, i) ==
    IF i > Len(content) THEN <<>>
    ELSE (IF \E t \in 0..MaxClock : IsFooterAt(content, i, t)
          THEN << CHOOSE t \in 0..MaxClock : IsFooterAt(content, i, t) >>
          ELSE <<>>)
         \o Footers(content, i + 1)

RECURSIVE Finalized(_, _)
Finalized(h, i) ==
    IF i > Len(calls) THEN <<>>
    ELSE (IF calls[i].h = h /\ calls[i].op = "finalize" /\ calls[i].exc = "none"
          THEN << calls[i].args.now >> ELSE <<>>)
         \o Finalized(h, i + 1)

\* C9: finalize may be called any number of times: the file holds one
\* complete footer ('---' separator, then 'Log generated at <timestamp>')
\* for each finalize that returned, in order, each with the timestamp of its
\* own call, the earlier ones unchanged by the later ones.
C9_FooterPerFinalize ==
    \A h \in Handles :
        Live(h) => Footers(files[logger[h].filepath], 1) = Finalized(h, 1)

C9_Witness ==
    /\ Len(calls) = 3
    /\ calls[2].op = "finalize" /\ calls[2].exc = "none"
    /\ calls[3].op = "finalize" /\ calls[3].exc = "none"
    /\ calls[3].args.now > calls[2].args.now
    /\ Len(Footers(files[logger[1].filepath], 1)) = 2

\* C2: a call has no partial-success state: a call that fails leaves every
\* file as it was before the call, and a call that returns has appended its
\* full rendering.  Stated for the calls during which no I/O fault occurs,
\* where the only failure is the one the call raises itself.
C2_AllOrNothing ==
    [][ (CallStep /\ Last.op \in LogOps /\ Last.fault = NoFault) =>
            LET p == logger[Last.h].filepath
            IN  IF Last.exc # "none"
                THEN files' = files
                ELSE files'[p] = files[p] \o Flatten(BlocksOf(Last), 1) ]_vars

NumFences(content) ==
    Cardinality({i \in 1..Len(content) : content[i] = Fence \o "json\n"})

\* C3: when log_data cannot serialize its data, the error reaches the
\* caller and no opening json fence of that call is in the file.
C3_NoHalfWrittenBlock ==
    [][ (CallStep /\ Last.op = "log_data" /\ Last.fault = NoFault
            /\ ~json_dumps(Last.args.data).ok) =>
            LET p == logger[Last.h].filepath
            IN  /\ Last.exc # "none"
                /\ NumFences(files'[p]) = NumFences(files[p]) ]_vars

\* C11: finalize does not lock the transcript: a logging call issued after a
\* finalize that returned has the outcome it has on a transcript that was not
\* finalized (it raises only if one of its own writes fails), the object is
\* unchanged, and what it writes is appended after the footer.
C11_NoLockAfterFinalize ==
    [][ (CallStep /\ Last.op \in LogOps /\ Finalized(Last.h, 1) # <<>>) =>
            LET p == logger[Last.h].filepath
            IN  /\ (Last.exc = "none") <=> ~Fails(Last)
                /\ Footers(files[p], 1) = Finalized(Last.h, 1)
                /\ files'[p] = files[p] \o Emitted(BlocksOf(Last), 1, Last.fault)
                /\ logger'[Last.h] = logger[Last.h] ]_vars

C11_Witness ==
    /\ Len(calls) = 3
    /\ calls[2].op = "finalize" /\ calls[2].exc = "none"
    /\ calls[3].op = "log_data" /\ calls[3].exc = "none"
    /\ Len(files[logger[1].filepath]) = 8
    /\ files[logger[1].filepath][4] = "\n---\n\n"
    /\ files[logger[1].filepath][6] = Fence \o "json\n"

(***************************************************************************)
(* The entry points that create a transcript: src/main.py (the logger is   *)
(* created when the module is imported, then click runs one command),      *)
(* examples/basic_usage.py and tools/custom_tools.py.  A script is the     *)
(* sequence of the statements that touch the logger, with "work" standing  *)
(* for the code in between that may raise.                                 *)
(***************************************************************************)
Stmt(op, args) == [op |-> op, args |-> args]
NoArgs == [none |-> TRUE]

Modes == {"fast", "balanced", "accurate"}
TaskModes == {"api", "web", "hybrid"}
Tasks == {"list accounts"}

\* CUGADemo.execute_task
execute_task(mode, task_mode, task) ==
    [task |-> task, mode |-> mode, task_mode |-> task_mode, status |-> "simulated",
     message |-> "This is a demonstration. Integrate actual CUGA agent for real execution."]

\* the body of each click command of main.py
main_run(mode, task_mode, task) ==
    << Stmt("log_section", [title |-> "Task Execution",
                            content |-> "Mode: " \o mode \o ", Task Mode: " \o task_mode]),
       Stmt("log_text", [text |-> "**Task:** " \o task]),
       Stmt("work", NoArgs),
       Stmt("log_result", [result |-> execute_task(mode, task_mode, task)]),
       Stmt("finalize", NoArgs),
       Stmt("get_filepath", NoArgs) >>

main_interactive == << Stmt("work", NoArgs), Stmt("interactive", NoArgs) >>
main_examples == << Stmt("work", NoArgs) >>
main_check_setup == << Stmt("work", NoArgs) >>

\* main.py: the module-level create_logger("main"), then the command
main_py(body) == << Stmt("create", [script_name |-> "main"]) >> \o body

Account(id, name, revenue) ==
    PyDict(<< PyPair(PyStr("id"), PyInt(id)), PyPair(PyStr("name"), PyStr(name)),
              PyPair(PyStr("revenue"), PyInt(revenue)) >>)
Contact(name, email, role) ==
    PyDict(<< PyPair(PyStr("name"), PyStr(name)), PyPair(PyStr("email"), PyStr(email)),
              PyPair(PyStr("role"), PyStr(role)) >>)

example_1_simple_task ==
    [task |-> "List all accounts in the CRM system", status |-> "success",
     data |-> PyList(<< Account("1", "Acme Corp", "1000000"),
                        Account("2", "TechStart Inc", "750000"),
                        Account("3", "Global Solutions", "2000000") >>),
     execution_time |-> "2.3s", mode |-> "balanced"]

example_2_with_parameters ==
    [task |-> "Get top 3 accounts by revenue", status |-> "success",
     data |-> PyList(<< Account("3", "Global Solutions", "2000000"),
                        Account("1", "Acme Corp", "1000000"),
                        Account("2", "TechStart Inc", "750000") >>),
     execution_time |-> "1.8s", mode |-> "balanced"]

example_3_error_handling ==
    [task |-> "Get account with invalid ID: -999", status |-> "error",
     execution_time |-> "0.5s", mode |-> "balanced"]

example_4_multi_step_task ==
    [task |-> "Find the highest revenue account and get its contact details",
     status |-> "success",
     data |-> PyDict(<<
         PyPair(PyStr("account"), Account("3", "Global Solutions", "2000000")),
         PyPair(PyStr("contacts"),
                PyList(<< Contact("John Doe", "john@global.com", "CEO"),
                          Contact("Jane Smith", "jane@global.com", "CFO") >>)) >>),
     execution_time |-> "2.1s", mode |-> "balanced"]

\* sum(1 for r in self.results if r['status'] == status)
CountStatus(results, status) ==
    Cardinality({i \in 1..Len(results) : results[i].status = status})

\* BasicCUGAExample.run_all_examples
run_all_examples ==
    LET results == << example_1_simple_task, example_2_with_parameters,
                      example_3_error_handling, example_4_multi_step_task >>
    IN  << Stmt("log_section", [title |-> "CUGA Basic Usage Examples", content |-> ""]),
           Stmt("log_section", [title |-> "Example 1: Simple Task", content |-> ""]),
           Stmt("log_result", [result |-> results[1]]),
           Stmt("log_section", [title |-> "Example 2: Task with Parameters", content |-> ""]),
           Stmt("log_result", [result |-> results[2]]),
           Stmt("log_section", [title |-> "Example 3: Error Handling", content |-> ""]),
           Stmt("log_result", [result |-> results[3]]),
           Stmt("log_section", [title |-> "Example 4: Multi-Step Task", content |-> ""]),
           Stmt("log_result", [result |-> results[4]]),
           Stmt("log_section", [title |-> "Example 5: Mode Comparison", content |-> ""]),
           Stmt("log_section", [title |-> "Summary", content |-> ""]),
           Stmt("log_text", [text |-> "Total examples executed: 5"]),
           Stmt("log_text", [text |-> "Successful tasks: "
                                \o ToString(CountStatus(results, "success"))]),
           Stmt("log_text", [text |-> "Failed tasks: "
                                \o ToString(CountStatus(results, "error"))]) >>

\* examples/basic_usage.py main()
basic_usage_main ==
    << Stmt("create", [script_name |-> "basic_usage"]) >>
    \o run_all_examples
    \o << Stmt("finalize", NoArgs), Stmt("get_filepath", NoArgs) >>

Value(name, value) ==
    PyDict(<< PyPair(PyStr("name"), PyStr(name)), PyPair(PyStr("value"), PyInt(value)) >>)

\* tools/custom_tools.py demo_custom_tools(), with the tools' answers for the
\* fixed inputs of the demo (the expression is quoted with backquotes in the
\* source, with apostrophes here; [tick] stands for U+2713)
demo_custom_tools ==
    LET data == "[{\"name\": \"A\", \"value\": 150}, {\"name\": \"B\", \"value\": 80}, {\"name\": \"C\", \"value\": 200}]"
        result_filter == Encode(PyList(<< Value("A", "150"), Value("C", "200") >>), 0)
        result_agg == Encode(PyDict(<< PyPair(PyStr("total"), PyInt("430")),
                                       PyPair(PyStr("count"), PyInt("3")) >>), 0)
    IN  << Stmt("create", [script_name |-> "custom_tools"]),
           Stmt("log_section", [title |-> "CUGA Custom Tools Demonstration", content |-> ""]),
           Stmt("log_text", [text |-> "Testing custom LangChain tools for CUGA integration"]),
           Stmt("log_section", [title |-> "Example 1: Calculator Tool", content |-> ""]),
           Stmt("log_text", [text |-> "**Expression:** '(10 + 5) * 2'"]),
           Stmt("log_text", [text |-> "**Result:** Result: 30"]),
           Stmt("log_section", [title |-> "Example 2: Sentiment Analyzer Tool", content |-> ""]),
           Stmt("log_text", [text |-> "**Text:** This product is excellent and I love it!"]),
           Stmt("log_text", [text |-> "**Analysis:** Sentiment: positive (confidence: 0.70)"]),
           Stmt("log_section", [title |-> "Example 3: Data Processor Tool", content |-> ""]),
           Stmt("log_text", [text |-> "**Original data:**"]),
           Stmt("log_code", [code |-> data, language |-> "json"]),
           Stmt("log_text", [text |-> "**Operation:** filter (value > 100)"]),
           Stmt("log_code", [code |-> result_filter, language |-> "json"]),
           Stmt("log_text", [text |-> "**Operation:** aggregate"]),
           Stmt("log_code", [code |-> result_agg, language |-> "json"]),
           Stmt("log_section", [title |-> "Summary", content |-> ""]),
           Stmt("log_text", [text |-> "[tick] All 3 custom tools tested successfully"]),
           Stmt("log_list", [items |-> << PyStr("Calculator Tool - Mathematical expressions"),
                                          PyStr("Sentiment Analyzer Tool - Text sentiment analysis"),
                                          PyStr("Data Processor Tool - Data transformation operations") >>,
                             ordered |-> FALSE]),
           Stmt("finalize", NoArgs),
           Stmt("get_filepath", NoArgs) >>

Programs ==
    { [name |-> "main.run", script |-> main_py(main_run(m, tm, t))]
        : m \in Modes, tm \in TaskModes, t \in Tasks }
    \cup { [name |-> "main.interactive", script |-> main_py(main_interactive)],
           [name |-> "main.examples", script |-> main_py(main_examples)],
           [name |-> "main.check_setup", script |-> main_py(main_check_setup)],
           [name |-> "basic_usage", script |-> basic_usage_main],
           [name |-> "custom_tools", script |-> demo_custom_tools] }

EntryNames == {"main", "basic_usage", "custom_tools"}

(***************************************************************************)
(* The interactive loop of main.py: one iteration on one input.  A line is *)
(* a sequence of characters, so that lower() and strip() are computed.     *)
(***************************************************************************)
UpperCase ==
    << "A","B","C","D","E","F","G","H","I","J","K","L","M",
       "N","O","P","Q","R","S","T","U","V","W","X","Y","Z" >>
LowerCase ==
    << "a","b","c","d","e","f","g","h","i","j","k","l","m",
       "n","o","p","q","r","s","t","u","v","w","x","y","z" >>

lower_char(c) ==
    IF \E i \in 1..26 : UpperCase[i] = c
    THEN LowerCase[CHOOSE i \in 1..26 : UpperCase[i] = c]
    ELSE c

lower(line) == [i \in 1..Len(line) |-> lower_char(line[i])]

RECURSIVE lstrip(_)
lstrip(line) ==
    IF line # <<>> /\ Head(line) = " " THEN lstrip(Tail(line)) ELSE line

RECURSIVE rstrip(_)
rstrip(line) ==
    IF line # <<>> /\ line[Len(line)] = " "
    THEN rstrip(SubSeq(line, 1, Len(line) - 1)) ELSE line

strip(line) == rstrip(lstrip(line))

\* the texts the loop prints around its inputs, as characters
PANEL ==
    << "[","b","o","l","d"," ","b","l","u","e","]","E","x","e","c","u","t",
       "i","n","g"," ","T","a","s","k",":","[","/","b","o","l","d"," ","b",
       "l","u","e","]"," " >>
ERROR ==
    << "[","r","e","d","]","E","r","r","o","r",":","[","/","r","e","d","]",
       " " >>
CLOSING ==
    << "c","l","o","s","i","n","g"," ","t","a","g"," ","'" >>
EOF ==
    << "E","O","F"," ","w","h","e","n"," ","r","e","a","d","i","n","g"," ",
       "a"," ","l","i","n","e" >>

\* rich's console markup: "[" then one of a-z # / @ opens a tag that runs to
\* the next "]" with no "[" before it
IsTagStart(c) == c = "#" \/ c = "/" \/ c = "@" \/ \E i \in 1..26 : LowerCase[i] = c

TagEnd(text, i) ==
    IF i < Len(text) /\ text[i] = "[" /\ IsTagStart(text[i + 1])
       /\ \E j \in (i + 2)..Len(text) :
            text[j] = "]" /\ \A k \in (i + 2)..(j - 1) : text[k] \notin {"[", "]"}
    THEN CHOOSE j \in (i + 2)..Len(text) :
            text[j] = "]" /\ \A k \in (i + 2)..(j - 1) : text[k] \notin {"[", "]"}
    ELSE 0

\* the style stack without its last entry named name
PopStyle(stack, name) ==
    LET k == CHOOSE k \in 1..Len(stack) :
                stack[k] = name /\ \A m \in (k + 1)..Len(stack) : stack[m] # name
    IN SubSeq(stack, 1, k - 1) \o SubSeq(stack, k + 1, Len(stack))

\* rendering text with markup from position i with the open tags in stack:
\* the message of the MarkupError raised, or None.  A closing tag raises
\* when no open tag matches it.  (The messages also give the position.)
RECURSIVE render_markup(_, _, _)
render_markup(text, i, stack) ==
    IF i > Len(text) THEN None
    ELSE IF TagEnd(text, i) = 0 THEN render_markup(text, i + 1, stack)
    ELSE LET j == TagEnd(text, i)
             tag == SubSeq(text, i + 1, j - 1)
             style_name == strip(Tail(tag))
         IN IF Head(tag) # "/" THEN render_markup(text, j + 1, Append(stack, tag))
            ELSE IF style_name = << >>
            THEN (IF stack = << >>
                  THEN Some(CLOSING \o <<"[","/","]","'">>)
                  ELSE render_markup(text, j + 1, SubSeq(stack, 1, Len(stack) - 1)))
            ELSE IF \E k \in 1..Len(stack) : stack[k] = style_name
            THEN render_markup(text, j + 1, PopStyle(stack, style_name))
            ELSE Some(CLOSING \o <<"[">> \o tag \o <<"]","'">>)

\* console.print(text): the message of the exception it raises, or None
console_print(text) == render_markup(text, 1, << >>)

\* what execute_task of CUGADemo prints first, and whether that raises
execute_task_print(task) == console_print(PANEL \o task)

Inputs ==
    { [kind |-> "line", text |-> t, interrupt |-> FALSE] :
        t \in { <<"e","x","i","t">>, <<"Q","u","i","t">>, <<"e","x","i","t"," ">>,
                <<"c","o","n","f","i","g">>, <<"H","e","l","p">>,
                << >>, <<" ">>, <<"g","o">>,
                <<"[","b","]","g","o">>, <<"[","/","x","]">> } }
    \cup { [kind |-> "line", text |-> <<"g","o">>, interrupt |-> TRUE],
           [kind |-> "KeyboardInterrupt", text |-> << >>, interrupt |-> FALSE],
           [kind |-> "Exception", text |-> EOF, interrupt |-> FALSE] }

Pass(loop, did, caught, exc) ==
    [loop |-> loop, did |-> did, caught |-> caught, exc |-> exc]

\* except Exception as e: the report is itself a console.print, and an
\* exception raised inside an except clause leaves the loop
except_Exception(did, message) ==
    IF console_print(ERROR \o message) = None
    THEN Pass("continue", did, "Exception", "none")
    ELSE Pass("raise", did, "Exception", "MarkupError")

\* one pass of the while loop: whether it breaks, continues or lets an
\* exception out, the branch it took, and what it caught.  input.kind says
\* what console.input did (returned a line, or raised), input.interrupt
\* whether Ctrl-C arrives while the task executes.
interactive(input) ==
    IF input.kind = "KeyboardInterrupt"
    THEN Pass("break", "nothing", "KeyboardInterrupt", "none")
    ELSE IF input.kind = "Exception" THEN except_Exception("nothing", input.text)
    ELSE LET task == input.text IN
         IF lower(task) \in { <<"e","x","i","t">>, <<"q","u","i","t">> }
         THEN Pass("break", "goodbye", "none", "none")
         ELSE IF lower(task) = <<"c","o","n","f","i","g">>
         THEN Pass("continue", "display_config", "none", "none")
         ELSE IF lower(task) = <<"h","e","l","p">>
         THEN Pass("continue", "help", "none", "none")
         ELSE IF strip(task) # << >>
         THEN (IF input.interrupt
               THEN Pass("break", "execute_task", "KeyboardInterrupt", "none")
               ELSE IF execute_task_print(task) # None
               THEN except_Exception("execute_task", execute_task_print(task)[1])
               ELSE Pass("continue", "execute_task", "none", "none"))
         ELSE Pass("continue", "nothing", "none", "none")

(***************************************************************************)
(* Running an entry point: one action per kind of statement.  An exception *)
(* that leaves a statement ends the process abnormally; falling off the    *)
(* end of the script ends it normally.                                     *)
(***************************************************************************)
Running == run.status = "running"
Current == run.script[run.pc]

Advance ==
    IF run.pc = Len(run.script)
    THEN [run EXCEPT !.pc = @ + 1, !.status = "done"]
    ELSE [run EXCEPT !.pc = @ + 1]

Crash == [run EXCEPT !.status = "crashed"]

AfterCall == IF calls'[Len(calls')].exc = "none" THEN Advance ELSE Crash

Launch ==
    /\ run.status = "idle"
    /\ \E program \in Programs :
        run' = [name |-> program.name, script |-> program.script, pc |-> 1,
                status |-> "running"]
    /\ UNCHANGED <<clock, outdir, files, logger, calls, nfaults, agent>>

ExecCreate ==
    /\ Running /\ Current.op = "create"
    /\ \E fault \in CreateFaults :
        \E t1 \in clock..MaxClock :
            \E t2 \in t1..MaxClock :
                DoCreate(1, Current.args.script_name, t1, t2, fault)
    /\ run' = AfterCall

ExecLog ==
    /\ Running /\ Current.op \in LogOps \ {"finalize"}
    /\ \E fault \in FaultsOf(BlocksOf(Current)) :
        DoCall(1, Current.op, Current.args, BlocksOf(Current), fault)
    /\ clock' = clock
    /\ run' = AfterCall

ExecFinalize ==
    /\ Running /\ Current.op = "finalize"
    /\ \E now \in clock..MaxClock :
        \E fault \in FaultsOf(finalize(now)) :
            /\ DoCall(1, "finalize", [now |-> now], finalize(now), fault)
            /\ clock' = now
    /\ run' = AfterCall

ExecGetFilepath ==
    /\ Running /\ Current.op = "get_filepath"
    /\ DoGetFilepath(1)
    /\ clock' = clock
    /\ run' = AfterCall

\* code between the logger calls (CUGADemo(), display_config, the tables):
\* it returns or it raises
ExecWork ==
    /\ Running /\ Current.op = "work"
    /\ \E raises \in BOOLEAN : run' = IF raises THEN Crash ELSE Advance
    /\ UNCHANGED <<clock, outdir, files, logger, calls, nfaults, agent>>

ExecInteractive ==
    /\ Running /\ Current.op = "interactive"
    /\ \E input \in Inputs :
        run' = CASE interactive(input).loop = "break" -> Advance
                 [] interactive(input).loop = "raise" -> Crash
                 [] OTHER -> run
    /\ UNCHANGED <<clock, outdir, files, logger, calls, nfaults, agent>>

InitEntry == InitWorld(EntryNames)

NextEntry ==
    \/ Launch
    \/ ExecCreate
    \/ ExecLog
    \/ ExecFinalize
    \/ ExecGetFilepath
    \/ ExecWork
    \/ ExecInteractive

SpecEntry == InitEntry /\ [][NextEntry]_vars

EndsWithFooter(content) ==
    /\ Len(content) >= 2
    /\ \E t \in 0..MaxClock : IsFooterAt(content, Len(content) - 1, t)

\* C10: a transcript without its closing footer is evidence of abnormal
\* termination: whenever an entry point that created a transcript has
\* terminated normally, finalize has run on the transcript and its file ends
\* with a footer.
C10_FooterOnNormalExit ==
    (run.status = "done" /\ Live(1)) =>
        /\ \E i \in 1..Len(calls) : calls[i].op = "finalize" /\ calls[i].exc = "none"
        /\ EndsWithFooter(files[logger[1].filepath])

(***************************************************************************)
(* Rendering: one transcript, already constructed, and the logging calls   *)
(* on it over a wider range of arguments than Spec draws.  No I/O fault    *)
(* occurs here; the only failure is the TypeError of json.dumps.           *)
(***************************************************************************)
MaxRenders == 2

SectionInputs == { [title |-> t, content |-> c] : t \in {"T", ""}, c \in {"", "body", " "} }

ListOfInts == PyList(<< PyInt("1"), PyStr("a") >>)
Nested ==
    PyDict(<< PyPair(PyStr("a"), PyList(<< PyInt("1"),
                                           PyDict(<< PyPair(PyStr("b"), PyStr("c")) >>) >>)),
              PyPair(PyStr("d"), PyDict(<< >>)) >>)
TupleData == PyTuple(<< PyInt("1"), PyInt("2") >>)
IntKeyData == PyDict(<< PyPair(PyInt("1"), PyStr("a")) >>)
ObjData == PyObj("2024-01-01 00:00:00")
NestedTuple == PyDict(<< PyPair(PyStr("k"), PyTuple(<< PyInt("1") >>)) >>)

DataValues ==
    { PyStr("s"), PyInt("7"), PyList(<< >>), PyDict(<< >>), GoodData, ListOfInts, Nested,
      TupleData, IntKeyData, ObjData, NestedTuple, BadKeyData }

RenderDataInputs ==
    { [data |-> d, title |-> None] : d \in DataValues }
    \cup { [data |-> d, title |-> t] :
             d \in {GoodData, BadKeyData, ListOfInts}, t \in {Some(""), Some("D")} }

TableHeaders == { << >>, << PyStr("A"), PyStr("B") >> }
TableRows ==
    { << >>,
      << << PyStr("1"), PyStr("2") >> >>,
      << << PyStr("1"), PyStr("2") >>, << PyStr("3"), PyInt("4") >> >>,
      << << PyStr("1") >>, << PyStr("1"), PyStr("2"), PyStr("3") >>, << >> >> }

ListItems ==
    { << >>, << PyStr("x") >>, << PyStr("x"), PyStr("y") >>,
      << PyStr("y"), PyInt("1"), PyStr("x") >> }

\* a result dict: the status key, when present, joined with the other keys
WithStatus(rest) ==
    {rest} \cup { [k \in DOMAIN rest \cup {"status"} |->
                     IF k = "status" THEN st ELSE rest[k]]
                  : st \in {"success", "error", "simulated"} }

ResultInputs ==
    UNION { WithStatus(rest) :
              rest \in { << >>,
                         [message |-> "m"],
                         [data |-> GoodData],
                         [execution_time |-> "1s"],
                         [message |-> "m", data |-> Nested, execution_time |-> "1s"],
                         [message |-> "m", data |-> BadKeyData, execution_time |-> "1s"] } }

\* the state after OutputLogger("demo") in second 0, the directory absent
InitRender ==
    LET r == OutputLogger("demo", 0, 0, "absent", << >>, NoFault)
    IN  /\ clock = 0
        /\ outdir = r.dir
        /\ files = r.files
        /\ logger = [h \in {1} |-> r.self]
        /\ calls = << Event(1, "OutputLogger",
                            [script_name |-> "demo", t1 |-> 0, t2 |-> 0, dir |-> "absent"],
                            NoFault, r.exc) >>
        /\ nfaults = 0
        /\ run = NoRun
        /\ agent = NoAgent

Render(h, op, args) ==
    /\ Len(calls) <= MaxRenders
    /\ DoCall(h, op, args, BlocksOf([op |-> op, args |-> args]), NoFault)
    /\ UNCHANGED <<clock, run>>

RenderSection(h) == \E in \in SectionInputs : Render(h, "log_section", in)

RenderText(h) == \E text \in {"x"} : Render(h, "log_text", [text |-> text])

RenderCode(h) ==
    \E code \in {"c"}, language \in {"python"} :
        Render(h, "log_code", [code |-> code, language |-> language])

RenderData(h) == \E in \in RenderDataInputs : Render(h, "log_data", in)

RenderTable(h) ==
    \E headers \in TableHeaders, rows \in TableRows :
        Render(h, "log_table", [headers |-> headers, rows |-> rows])

RenderList(h) ==
    \E items \in ListItems, ordered \in BOOLEAN :
        Render(h, "log_list", [items |-> items, ordered |-> ordered])

RenderResult(h) == \E result \in ResultInputs : Render(h, "log_result", [result |-> result])

NextRender ==
    \/ \E h \in Handles : RenderSection(h)
    \/ \E h \in Handles : RenderText(h)
    \/ \E h \in Handles : RenderCode(h)
    \/ \E h \in Handles : RenderData(h)
    \/ \E h \in Handles : RenderTable(h)
    \/ \E h \in Handles : RenderList(h)
    \/ \E h \in Handles : RenderResult(h)

SpecRender == InitRender /\ [][NextRender]_vars

\* what the step appended to the file of the transcript it was made on
Appended ==
    LET p == logger[Last.h].filepath
    IN  SubSeq(files'[p], Len(files[p]) + 1, Len(files'[p]))

AppendStep(op) ==
    /\ CallStep /\ Last.op = op
    /\ IsPrefix(files[logger[Last.h].filepath], files'[logger[Last.h].filepath])

RECURSIVE Concat(_)
Concat(chunks) == IF chunks = << >> THEN "" ELSE Head(chunks) \o Concat(Tail(chunks))

\* C17: log_section(title, body) appends the heading line for the title and
\* a blank line, and then the body and a blank line if and only if the body
\* is not empty; with an empty body nothing else is appended.
C17_SectionRendering ==
    [][ CallStep /\ Last.op = "log_section" =>
            /\ AppendStep("log_section")
            /\ Last.exc = "none"
            /\ Concat(Appended) =
                   "## " \o Last.args.title \o "\n" \o "\n"
                       \o (IF Last.args.content = "" THEN ""
                           ELSE Last.args.content \o "\n" \o "\n")
            /\ Len(Appended) = (IF Last.args.content = "" THEN 1 ELSE 2) ]_vars

C17_Witness ==
    /\ Len(calls) = 3
    /\ calls[2].op = "log_section" /\ calls[2].args.content = "" /\ calls[2].exc = "none"
    /\ calls[3].op = "log_section" /\ calls[3].args.content = "body" /\ calls[3].exc = "none"
    /\ Len(files[logger[1].filepath]) = 6

\* the lines of a returned log_result, as the claim lists them
StatusLabel(result) == IF "status" \in DOMAIN result THEN result.status ELSE "unknown"

StatusLine(result) ==
    (CASE StatusLabel(result) = "success" -> MarkSuccess
       [] StatusLabel(result) = "error" -> MarkError
       [] OTHER -> MarkInfo)
    \o " **Status:** " \o StatusLabel(result) \o "\n\n"

DataBlockText(data) ==
    Fence \o "json\n" \o json_dumps(data).text \o "\n" \o Fence \o "\n\n"

\* C12: a log_result(result) that returns has appended, in this order: the
\* section 'Execution Result'; the status line, labelled result['status'] or
\* 'unknown' when the key is absent, with the success marker iff the status
\* is 'success', the error marker iff it is 'error', the third marker
\* otherwise; a message line iff 'message' is a key; a 'Result Data' data
\* block iff 'data' is a key; an execution-time line iff 'execution_time' is
\* a key; and no line for a key that is absent.
C12_ResultRendering ==
    [][ (CallStep /\ Last.op = "log_result" /\ Last.exc = "none") =>
            LET result == Last.args.result
            IN  /\ AppendStep("log_result")
                /\ Concat(Appended) =
                       "## Execution Result\n\n"
                       \o StatusLine(result)
                       \o (IF "message" \in DOMAIN result
                           THEN "**Message:** " \o result.message \o "\n\n" ELSE "")
                       \o (IF "data" \in DOMAIN result
                           THEN "## Result Data\n\n" \o DataBlockText(result.data) ELSE "")
                       \o (IF "execution_time" \in DOMAIN result
                           THEN "**Execution Time:** " \o result.execution_time \o "\n\n"
                           ELSE "")
                /\ Len(Appended) =
                       2 + (IF "message" \in DOMAIN result THEN 1 ELSE 0)
                         + (IF "data" \in DOMAIN result THEN 4 ELSE 0)
                         + (IF "execution_time" \in DOMAIN result THEN 1 ELSE 0) ]_vars

C12_Witness ==
    /\ Len(calls) = 3
    /\ calls[2].op = "log_result" /\ calls[2].exc = "none"
    /\ DOMAIN calls[2].args.result = {"data"}
    /\ calls[3].op = "log_result" /\ calls[3].exc = "none"
    /\ DOMAIN calls[3].args.result = {"status", "message", "data", "execution_time"}
    /\ calls[3].args.result.status = "error"
    /\ Len(files[logger[1].filepath]) = 3 + 6 + 8

\* a pipe-delimited line: every cell between two pipes, in order
RECURSIVE PipeCells(_)
PipeCells(cells) ==
    IF cells = << >> THEN "" ELSE " " \o Head(cells) \o " |" \o PipeCells(Tail(cells))

PipeLine(cells) == IF cells = << >> THEN "|  |\n" ELSE "|" \o PipeCells(cells) \o "\n"

\* C15: log_table(headers, rows) appends exactly 2 + len(rows) table lines
\* (and the blank line that ends the table): the pipe-delimited header row
\* with the stringified headers in order, a separator row with one '---'
\* cell per header, then one pipe-delimited line per row with that row's own
\* stringified cells in order; a row with more or fewer cells than headers
\* is rendered as given, and the call does not fail.
C15_TableRendering ==
    [][ (CallStep /\ Last.op = "log_table") =>
            LET headers == Last.args.headers
                rows == Last.args.rows
            IN  /\ Last.exc = "none"
                /\ AppendStep("log_table")
                /\ Len(Appended) = 2 + Len(rows) + 1
                /\ Appended[1] = PipeLine([i \in 1..Len(headers) |-> headers[i].v])
                /\ Appended[2] = PipeLine([i \in 1..Len(headers) |-> "---"])
                /\ \A r \in 1..Len(rows) :
                       Appended[2 + r] = PipeLine([c \in 1..Len(rows[r]) |-> rows[r][c].v])
                /\ Appended[Len(Appended)] = "\n" ]_vars

C15_Witness ==
    /\ Len(calls) = 2
    /\ calls[2].op = "log_table" /\ calls[2].exc = "none"
    /\ Len(calls[2].args.headers) = 2
    /\ Len(calls[2].args.rows) = 3
    /\ Len(calls[2].args.rows[2]) = 3
    /\ Len(files[logger[1].filepath]) = 3 + 6
    /\ files[logger[1].filepath][6] = "| 1 |\n"
    /\ files[logger[1].filepath][7] = "| 1 | 2 | 3 |\n"

\* C16: log_list(items, ordered) appends one line per item in the order
\* given, then one blank line: with ordered the k-th item, counting from 1,
\* as 'k. <item>', otherwise every item as '- <item>'; the number of item
\* lines is len(items).
C16_ListRendering ==
    [][ (CallStep /\ Last.op = "log_list") =>
            LET items == Last.args.items
            IN  /\ Last.exc = "none"
                /\ AppendStep("log_list")
                /\ Len(Appended) = Len(items) + 1
                /\ \A k \in 1..Len(items) :
                       Appended[k] =
                           (IF Last.args.ordered THEN ToString(k) \o ". " ELSE "- ")
                               \o items[k].v \o "\n"
                /\ Appended[Len(items) + 1] = "\n" ]_vars

C16_Witness ==
    /\ Len(calls) = 3
    /\ calls[2].op = "log_list" /\ calls[2].args.ordered /\ calls[2].exc = "none"
    /\ calls[3].op = "log_list" /\ ~calls[3].args.ordered /\ calls[3].exc = "none"
    /\ Len(files[logger[1].filepath]) = 9
    /\ SubSeq(files[logger[1].filepath], 4, 9) =
           << "1. x\n", "2. y\n", "\n", "- x\n", "- y\n", "\n" >>

\* C18, as claimed: a log_data(data, title) that returns has appended a
\* section heading for the title whenever a title is given, whatever its
\* value, the empty string included, and none when no title is given, and
\* then exactly one fenced json block holding the serialized data.
C18_HeadingWheneverGiven ==
    [][ (CallStep /\ Last.op = "log_data" /\ Last.exc = "none") =>
            /\ AppendStep("log_data")
            /\ Concat(Appended) =
                   (IF Last.args.title # None
                    THEN "## " \o Last.args.title[1] \o "\n\n" ELSE "")
                   \o DataBlockText(Last.args.data) ]_vars

\* C18, amended: a log_data(data, title) that returns has appended a section
\* heading for the title whenever a non-empty title is given, and none when
\* no title is given or the title is the empty string, and then in every
\* case exactly one fenced json block holding the serialized data, the
\* heading before the block.
C18_HeadingWhenNonEmpty ==
    [][ (CallStep /\ Last.op = "log_data" /\ Last.exc = "none") =>
            LET title == Last.args.title
                headed == title # None /\ title[1] # ""
            IN  /\ AppendStep("log_data")
                /\ Concat(Appended) =
                       (IF headed THEN "## " \o title[1] \o "\n\n" ELSE "")
                       \o DataBlockText(Last.args.data)
                /\ Len(Appended) = (IF headed THEN 4 ELSE 3)
                /\ NumFences(Appended) = 1
                /\ Appended[Len(Appended) - 2] = Fence \o "json\n" ]_vars

C18_Witness ==
    /\ Len(calls) = 3
    /\ calls[2].op = "log_data" /\ calls[2].args.title = Some("") /\ calls[2].exc = "none"
    /\ calls[3].op = "log_data" /\ calls[3].args.title = Some("D") /\ calls[3].exc = "none"
    /\ Len(files[logger[1].filepath]) = 3 + 3 + 4
    /\ files[logger[1].filepath][4] = Fence \o "json\n"
    /\ files[logger[1].filepath][7] = "## D\n\n"

(***************************************************************************)
(* Reading a json block back.  TLC cannot take a string apart, so the      *)
(* reader works on the lexical tokens of the text: Tokens gives the tokens *)
(* json.dumps(data, indent=2, default=str) writes, TokenText the text of   *)
(* one token, and a block is read through Tokens only where the texts of   *)
(* the tokens, concatenated, are the text in the file.  json_loads is the  *)
(* reader: objects become dicts (a repeated key keeps its last value),     *)
(* arrays lists, strings str, numbers int.  Strings here hold no quote or  *)
(* backslash, so no escape is involved.                                    *)
(***************************************************************************)
Tok(k, s) == [k |-> k, s |-> s]

RECURSIVE Tokens(_, _), TokensItems(_, _, _)
Tokens(x, level) ==
    CASE x.t \in {"str", "obj"} -> << Tok("string", x.v) >>
      [] x.t = "int" -> << Tok("number", x.v) >>
      [] x.t \in {"list", "tuple"} ->
            IF x.items = << >> THEN << Tok("[", "["), Tok("]", "]") >>
            ELSE << Tok("[", "["), Tok("ws", "\n") >>
                    \o TokensItems(x.items, 1, level + 1)
                    \o << Tok("ws", "\n" \o Spaces(2 * level)), Tok("]", "]") >>
      [] x.t = "dict" ->
            IF x.items = << >> THEN << Tok("{", "{"), Tok("}", "}") >>
            ELSE << Tok("{", "{"), Tok("ws", "\n") >>
                    \o TokensItems(x.items, 1, level + 1)
                    \o << Tok("ws", "\n" \o Spaces(2 * level)), Tok("}", "}") >>
      [] x.t = "pair" ->
            << Tok("string", x.items[1].v), Tok(":", ":"), Tok("ws", " ") >>
                \o Tokens(x.items[2], level)

TokensItems(xs, i, level) ==
    << Tok("ws", Spaces(2 * level)) >>
    \o Tokens(xs[i], level)
    \o (IF i = Len(xs) THEN << >>
        ELSE << Tok(",", ","), Tok("ws", "\n") >> \o TokensItems(xs, i + 1, level))

TokenText(tok) == IF tok.k = "string" THEN "\"" \o tok.s \o "\"" ELSE tok.s

TokensText(toks) == Concat([i \in 1..Len(toks) |-> TokenText(toks[i])])

RECURSIVE SkipWs(_, _)
SkipWs(toks, i) ==
    IF i <= Len(toks) /\ toks[i].k = "ws" THEN SkipWs(toks, i + 1) ELSE i

\* d[key] = value on the pairs of a dict under construction
Put(pairs, key, value) ==
    IF \E i \in 1..Len(pairs) : pairs[i].items[1] = key
    THEN [i \in 1..Len(pairs) |->
             IF pairs[i].items[1] = key THEN PyPair(key, value) ELSE pairs[i]]
    ELSE Append(pairs, PyPair(key, value))

RECURSIVE ParseValue(_, _), ParseElements(_, _, _), ParseMembers(_, _, _)
ParseValue(toks, i) ==
    LET j == SkipWs(toks, i)
    IN  CASE toks[j].k = "string" -> [val |-> PyStr(toks[j].s), next |-> j + 1]
          [] toks[j].k = "number" -> [val |-> PyInt(toks[j].s), next |-> j + 1]
          [] toks[j].k = "[" ->
                LET k == SkipWs(toks, j + 1)
                IN  IF toks[k].k = "]" THEN [val |-> PyList(<< >>), next |-> k + 1]
                    ELSE ParseElements(toks, k, << >>)
          [] toks[j].k = "{" ->
                LET k == SkipWs(toks, j + 1)
                IN  IF toks[k].k = "}" THEN [val |-> PyDict(<< >>), next |-> k + 1]
                    ELSE ParseMembers(toks, k, << >>)

ParseElements(toks, i, acc) ==
    LET e == ParseValue(toks, i)
        j == SkipWs(toks, e.next)
    IN  IF toks[j].k = ","
        THEN ParseElements(toks, j + 1, Append(acc, e.val))
        ELSE [val |-> PyList(Append(acc, e.val)), next |-> j + 1]

ParseMembers(toks, i, acc) ==
    LET j == SkipWs(toks, i)
        key == PyStr(toks[j].s)
        c == SkipWs(toks, j + 1)
        e == ParseValue(toks, c + 1)
        n == SkipWs(toks, e.next)
    IN  IF toks[n].k = ","
        THEN ParseMembers(toks, n + 1, Put(acc, key, e.val))
        ELSE [val |-> PyDict(Put(acc, key, e.val)), next |-> n + 1]

json_loads(toks) == ParseValue(toks, 1).val

\* == of Python on the values read back: a dict equals a dict with the same
\* keys and equal values in any order; a tuple never equals a list
RECURSIVE PyEq(_, _)
PyEq(a, b) ==
    /\ a.t = b.t
    /\ CASE a.t \in {"str", "int", "obj"} -> a.v = b.v
         [] a.t \in {"list", "tuple"} ->
               /\ Len(a.items) = Len(b.items)
               /\ \A i \in 1..Len(a.items) : PyEq(a.items[i], b.items[i])
         [] a.t = "dict" ->
               /\ Len(a.items) = Len(b.items)
               /\ \A i \in 1..Len(a.items) :
                      \E j \in 1..Len(b.items) :
                          /\ PyEq(a.items[i].items[1], b.items[j].items[1])
                          /\ PyEq(a.items[i].items[2], b.items[j].items[2])
         [] OTHER -> FALSE

\* the values json has a form of its own for: strings, integers, lists, and
\* dicts with string keys, of such values
RECURSIVE JsonNative(_)
JsonNative(x) ==
    CASE x.t \in {"str", "int"} -> TRUE
      [] x.t = "list" -> \A i \in 1..Len(x.items) : JsonNative(x.items[i])
      [] x.t = "dict" ->
            \A i \in 1..Len(x.items) :
                x.items[i].items[1].t = "str" /\ JsonNative(x.items[i].items[2])
      [] OTHER -> FALSE

\* the json block of a returned log_data reads back as the value logged
ReadsBackEqual ==
    LET text == Appended[Len(Appended) - 1]
        toks == Tokens(Last.args.data, 0)
    IN  /\ AppendStep("log_data")
        /\ Appended[Len(Appended) - 2] = Fence \o "json\n"
        /\ Appended[Len(Appended)] = "\n" \o Fence \o "\n\n"
        /\ TokensText(toks) = text
        /\ PyEq(json_loads(toks), Last.args.data)

\* C19, as claimed: for every value that log_data serializes without error,
\* parsing the emitted json block back yields a value equal to the
\* original, key order ignored.
C19_RoundTrip ==
    [][ (CallStep /\ Last.op = "log_data" /\ Last.exc = "none") => ReadsBackEqual ]_vars

\* C19, amended: the round trip holds for every value built of strings,
\* integers, lists and maps with string keys; such a value always
\* serializes, and its block parses back to an equal value.
C19_RoundTripNative ==
    [][ (CallStep /\ Last.op = "log_data" /\ JsonNative(Last.args.data)) =>
            Last.exc = "none" /\ ReadsBackEqual ]_vars

C19_Witness ==
    /\ Len(calls) = 2
    /\ calls[2].op = "log_data" /\ calls[2].exc = "none"
    /\ calls[2].args.data = Nested
    /\ Len(files[logger[1].filepath]) = 6
    /\ json_loads(Tokens(Nested, 0)) = Nested
    /\ TokensText(Tokens(Nested, 0)) = files[logger[1].filepath][5]

(***************************************************************************)
(* log_result against its primitives.  Two transcripts are constructed;    *)
(* log_result(result) is called on the first, and a caller issues on the   *)
(* second, one call at a time, the calls the body of log_result makes      *)
(* (lines 139-149), stopping at the first that raises.                     *)
(***************************************************************************)
log_result_calls(result) ==
    LET status == Get(result, "status", "unknown")
        status_emoji == IF status = "success" THEN MarkSuccess
                        ELSE IF status = "error" THEN MarkError ELSE MarkInfo
    IN  << Stmt("log_section", [title |-> "Execution Result", content |-> ""]),
           Stmt("log_text", [text |-> status_emoji \o " **Status:** " \o status]) >>
        \o (IF "message" \in DOMAIN result
            THEN << Stmt("log_text", [text |-> "**Message:** " \o result["message"]]) >>
            ELSE << >>)
        \o (IF "data" \in DOMAIN result
            THEN << Stmt("log_data", [data |-> result["data"], title |-> Some("Result Data")]) >>
            ELSE << >>)
        \o (IF "execution_time" \in DOMAIN result
            THEN << Stmt("log_text",
                         [text |-> "**Execution Time:** " \o result["execution_time"]]) >>
            ELSE << >>)

InitComposite ==
    \E result \in ResultInputs :
        LET a == OutputLogger("demo", 0, 0, "absent", << >>, NoFault)
            b == OutputLogger("direct", 0, 0, a.dir, a.files, NoFault)
        IN  /\ clock = 0
            /\ outdir = b.dir
            /\ files = b.files
            /\ logger = [h \in {1, 2} |-> IF h = 1 THEN a.self ELSE b.self]
            /\ calls = << Event(1, "OutputLogger",
                                [script_name |-> "demo", t1 |-> 0, t2 |-> 0, dir |-> "absent"],
                                NoFault, a.exc),
                          Event(2, "OutputLogger",
                                [script_name |-> "direct", t1 |-> 0, t2 |-> 0, dir |-> a.dir],
                                NoFault, b.exc) >>
            /\ nfaults = 0
            /\ run = [name |-> "composite", script |-> log_result_calls(result), pc |-> 1,
                      status |-> "running", result |-> result]
            /\ agent = NoAgent

Composed == \E i \in 1..Len(calls) : calls[i].h = 1 /\ calls[i].op = "log_result"

\* logger.log_result(result) on the first transcript
CallComposite ==
    /\ ~Composed
    /\ DoCall(1, "log_result", [result |-> run.result], log_result(run.result), NoFault)
    /\ UNCHANGED <<clock, run>>

\* the next of the primitive calls on the second transcript
CallPrimitive ==
    /\ Running
    /\ DoCall(2, Current.op, Current.args, BlocksOf(Current), NoFault)
    /\ clock' = clock
    /\ run' = AfterCall

NextComposite ==
    \/ CallComposite
    \/ CallPrimitive

SpecComposite == InitComposite /\ [][NextComposite]_vars

\* what a transcript holds after its three header chunks
Body(content) == SubSeq(content, 4, Len(content))

CompositeOutcome == (CHOOSE i \in 1..Len(calls) : calls[i].h = 1 /\ calls[i].op = "log_result")

\* C13: log_result is a composite of the other primitives: once
\* log_result(result) has been called on one transcript and the calls of its
\* body have been issued one by one on another, the two files hold the same
\* entries after their headers, the call raised iff one of the primitive
\* calls did, and log_result changed nothing of the logger but the file: the
\* object, the clock and the directory are as they were.
C13_CompositeOfPrimitives ==
    /\ (Composed /\ run.status \in {"done", "crashed"}) =>
           /\ Body(files[logger[1].filepath]) = Body(files[logger[2].filepath])
           /\ (calls[CompositeOutcome].exc = "none") <=> (run.status = "done")
    /\ Composed =>
           /\ logger[1] = [state |-> "live", script_name |-> "demo", output_dir |-> OutputDir,
                           filename |-> "demo_" \o strftime_file(0) \o ".md",
                           filepath |-> CreatedPath(1)]
           /\ clock = 0
           /\ outdir = "present"
           /\ DOMAIN files = {logger[1].filepath, logger[2].filepath}

C13_Witness ==
    /\ Composed
    /\ run.status = "done"
    /\ DOMAIN run.result = {"status", "message", "data", "execution_time"}
    /\ Len(files[logger[1].filepath]) = 3 + 8
    /\ files[logger[1].filepath][9] = Encode(Nested, 0)
    /\ Body(files[logger[2].filepath]) = Body(files[logger[1].filepath])

(***************************************************************************)
(* Two transcripts in one process: the first is constructed as "demo" in   *)
(* second 0; the second is constructed later, under the same name or       *)
(* another, in the same second or a later one.  The calls on the two       *)
(* handles interleave freely.                                              *)
(***************************************************************************)
MaxPairCalls == 5

PairNames == {"demo", "other"}

\* what each caller logs: the texts tell the two callers apart
PairText == [h \in {1, 2} |-> IF h = 1 THEN "a" ELSE "b"]

InitPair ==
    LET a == OutputLogger("demo", 0, 0, "absent", << >>, NoFault)
    IN  /\ clock = 0
        /\ outdir = a.dir
        /\ files = a.files
        /\ logger = [h \in {1, 2} |-> IF h = 1 THEN a.self ELSE NoLogger]
        /\ calls = << Event(1, "OutputLogger",
                            [script_name |-> "demo", t1 |-> 0, t2 |-> 0, dir |-> "absent"],
                            NoFault, a.exc) >>
        /\ nfaults = 0
        /\ run = NoRun
        /\ agent = NoAgent

PairCreate(h) ==
    \E script_name \in PairNames :
        \E t1 \in clock..MaxClock :
            \E t2 \in t1..MaxClock :
                /\ Len(calls) < MaxPairCalls
                /\ DoCreate(h, script_name, t1, t2, NoFault)
                /\ UNCHANGED run

PairCall(h, op, args) ==
    /\ Len(calls) < MaxPairCalls
    /\ DoCall(h, op, args, BlocksOf([op |-> op, args |-> args]), NoFault)
    /\ UNCHANGED <<clock, run>>

PairLogText(h) == PairCall(h, "log_text", [text |-> PairText[h]])

PairLogData(h) == PairCall(h, "log_data", [data |-> GoodData, title |-> Some(PairText[h])])

PairFinalize(h) ==
    \E now \in clock..MaxClock :
        /\ Len(calls) < MaxPairCalls
        /\ DoCall(h, "finalize", [now |-> now], finalize(now), NoFault)
        /\ clock' = now
        /\ UNCHANGED run

PairGetFilepath(h) ==
    /\ Len(calls) < MaxPairCalls
    /\ DoGetFilepath(h)
    /\ UNCHANGED <<clock, run>>

NextPair ==
    \/ \E h \in Handles : PairCreate(h)
    \/ \E h \in Handles : PairLogText(h)
    \/ \E h \in Handles : PairLogData(h)
    \/ \E h \in Handles : PairFinalize(h)
    \/ \E h \in Handles : PairGetFilepath(h)

SpecPair == InitPair /\ [][NextPair]_vars

\* the script name and the timestamp, to the second, of h's construction
NameOf(h) == calls[CreatedAt(h)].args.script_name
StampOf(h) == strftime_file(calls[CreatedAt(h)].args.t1)

\* C14: two transcripts created with different script names, or with the
\* same name at timestamps that differ at one-second resolution, have
\* distinct file paths, and no operation on one of them (the construction of
\* the later one included) changes the content of the other's file, however
\* their calls interleave.
C14_DistinctFilesIsolated ==
    [][ \A h, g \in Handles :
            /\ (h # g /\ Live(h) /\ Live(g)
                  /\ (NameOf(h) # NameOf(g) \/ StampOf(h) # StampOf(g))) =>
                   /\ logger[h].filepath # logger[g].filepath
                   /\ (CallStep /\ Last.h = h) =>
                          /\ logger[g].filepath \in DOMAIN files'
                          /\ files'[logger[g].filepath] = files[logger[g].filepath]
            /\ (h # g /\ Live(h) /\ ~Live(g) /\ logger'[g].state = "live"
                  /\ (Last.args.script_name # NameOf(h)
                        \/ strftime_file(Last.args.t1) # StampOf(h))) =>
                   /\ logger'[g].filepath # logger[h].filepath
                   /\ files'[logger[h].filepath] = files[logger[h].filepath] ]_vars

C14_Witness ==
    /\ Len(calls) = 5
    /\ Live(1) /\ Live(2)
    /\ calls[2].op = "log_text" /\ calls[2].h = 1
    /\ calls[3].op = "OutputLogger" /\ calls[3].args.script_name = "demo"
    /\ calls[3].args.t1 = 1
    /\ calls[4].op = "log_data" /\ calls[4].h = 2
    /\ calls[5].op = "finalize" /\ calls[5].h = 1
    /\ logger[1].filepath # logger[2].filepath
    /\ Len(files[logger[1].filepath]) = 3 + 1 + 2
    /\ Len(files[logger[2].filepath]) = 3 + 4

\* everything written by the calls from the i-th on
RECURSIVE WrittenFrom(_)
WrittenFrom(i) ==
    IF i > Len(calls) THEN << >>
    ELSE (IF calls[i].op \in LogOps
          THEN Emitted(BlocksOf(calls[i]), 1, calls[i].fault) ELSE << >>)
         \o WrittenFrom(i + 1)

\* C20: two transcripts created with the same script name in the same
\* directory within the same clock second hold the same file path; the
\* second construction truncates the file to a fresh header, so that every
\* entry the first had written is lost; and the later appends of both
\* handles are in that one file in the order the calls were issued.
C20_SameSecondSharesFile ==
    \A h, g \in Handles :
        (h # g /\ Live(h) /\ Live(g) /\ CreatedAt(h) < CreatedAt(g)
           /\ NameOf(h) = NameOf(g) /\ StampOf(h) = StampOf(g)) =>
            LET c == calls[CreatedAt(g)]
            IN  /\ logger[h].filepath = logger[g].filepath
                /\ DOMAIN files = {logger[g].filepath}
                /\ files[logger[g].filepath] =
                       initialize_file(c.args.script_name, c.args.t2).chunks
                           \o WrittenFrom(CreatedAt(g) + 1)

C20_Witness ==
    /\ Len(calls) = 5
    /\ Live(1) /\ Live(2)
    /\ calls[2].op = "log_text" /\ calls[2].h = 1
    /\ calls[3].op = "OutputLogger" /\ calls[3].args.script_name = "demo"
    /\ calls[3].args.t1 = 0
    /\ calls[4].op = "log_text" /\ calls[4].h = 2
    /\ calls[5].op = "log_text" /\ calls[5].h = 1
    /\ logger[1].filepath = logger[2].filepath
    /\ Body(files[logger[1].filepath]) = << "b\n\n", "a\n\n" >>

(***************************************************************************)
(* The clock reads of one transcript.  datetime.now() is the naive local   *)
(* wall clock: between two reads it may stand still, advance, or have been *)
(* set back (a clock correction, the end of daylight saving time), so a    *)
(* read here is any second, not only one after the last read.              *)
(***************************************************************************)
Seconds == 0..MaxClock

ClockCreate(h) ==
    \E script_name \in ScriptNames :
        \E t1 \in Seconds :
            \E t2 \in Seconds :
                /\ Len(calls) < MaxCalls
                /\ DoCreate(h, script_name, t1, t2, NoFault)
                /\ UNCHANGED run

ClockCall(h, op, args) ==
    /\ Len(calls) < MaxCalls
    /\ DoCall(h, op, args, BlocksOf([op |-> op, args |-> args]), NoFault)
    /\ UNCHANGED <<clock, run>>

ClockLogSection(h) ==
    \E title \in Titles, content \in Bodies :
        ClockCall(h, "log_section", [title |-> title, content |-> content])

ClockLogText(h) == \E text \in {"x"} : ClockCall(h, "log_text", [text |-> text])

ClockFinalize(h) ==
    \E now \in Seconds :
        /\ Len(calls) < MaxCalls
        /\ DoCall(h, "finalize", [now |-> now], finalize(now), NoFault)
        /\ clock' = now
        /\ UNCHANGED run

InitClock ==
    /\ clock \in Seconds
    /\ outdir \in {"absent", "present"}
    /\ files = << >>
    /\ logger = [h \in {1} |-> NoLogger]
    /\ calls = << >>
    /\ nfaults = 0
    /\ run = NoRun
    /\ agent = NoAgent

NextClock ==
    \/ \E h \in Handles : ClockCreate(h)
    \/ \E h \in Handles : ClockLogSection(h)
    \/ \E h \in Handles : ClockLogText(h)
    \/ \E h \in Handles : ClockFinalize(h)

SpecClock == InitClock /\ [][NextClock]_vars

\* the timestamps as they stand in the file name, in the header and in the
\* footers of the transcript of h
FilenameStamp(h) ==
    CHOOSE t \in Seconds :
        logger[h].filename = logger[h].script_name \o "_" \o strftime_file(t) \o ".md"

HeaderStamp(h) ==
    CHOOSE t \in Seconds :
        files[logger[h].filepath][2] = "**Timestamp:** " \o strftime_human(t) \o "\n\n"

FooterStamps(h) == Footers(files[logger[h].filepath], 1)

\* the clock reads made for h, in the order they were made
RECURSIVE ReadsOf(_, _)
ReadsOf(h, i) ==
    IF i > Len(calls) THEN << >>
    ELSE (IF calls[i].h # h THEN << >>
          ELSE IF calls[i].op = "OutputLogger" THEN << calls[i].args.t1, calls[i].args.t2 >>
          ELSE IF calls[i].op = "finalize" THEN << calls[i].args.now >>
          ELSE << >>)
         \o ReadsOf(h, i + 1)

NeverSetBack(reads) == \A i \in 1..(Len(reads) - 1) : reads[i] <= reads[i + 1]

StampsOrdered(h) ==
    /\ ReadsOf(h, 1)[1] = FilenameStamp(h)
    /\ ReadsOf(h, 1)[2] = HeaderStamp(h)
    /\ FilenameStamp(h) <= HeaderStamp(h)
    /\ (HeaderStamp(h) = FilenameStamp(h)) <=> (ReadsOf(h, 1)[1] = ReadsOf(h, 1)[2])
    /\ \A i \in 1..Len(FooterStamps(h)) : HeaderStamp(h) <= FooterStamps(h)[i]

\* C21, as claimed: the file name takes the first clock read and the header
\* the second; the header timestamp is never earlier than the file name's,
\* equals it only when the second did not change between the two reads, and
\* no footer timestamp is earlier than the header's.
C21_StampsOrdered ==
    \A h \in Handles : Live(h) => StampsOrdered(h)

\* C21, amended: the same, for a transcript during whose clock reads the
\* wall clock was not set back.
C21_StampsOrderedUnlessSetBack ==
    \A h \in Handles :
        (Live(h) /\ NeverSetBack(ReadsOf(h, 1))) => StampsOrdered(h)

C21_Witness ==
    /\ Len(calls) = 3
    /\ Live(1)
    /\ calls[1].args.t1 = 0 /\ calls[1].args.t2 = 1
    /\ calls[2].op = "log_text"
    /\ calls[3].op = "finalize" /\ calls[3].args.now = 1
    /\ FilenameStamp(1) = 0 /\ HeaderStamp(1) = 1
    /\ FooterStamps(1) = << 1 >>

(***************************************************************************)
(* CUGAAPIAgent (agents/api_agent.py).  A task is a sequence of characters *)
(* so that lower() and the substring tests are computed.  Python lists are *)
(* objects: the agent holds a reference into lists, get_execution_history  *)
(* returns that reference, and clear_history binds a new empty list.       *)
(***************************************************************************)
MaxAgentCalls == 5

\* sub in s, for sequences of characters
Contains(sub, s) ==
    \E i \in 1..(Len(s) - Len(sub) + 1) : SubSeq(s, i, i + Len(sub) - 1) = sub

load_default_config ==
    [mode |-> "api", reasoning_mode |-> "balanced", max_iterations |-> 20,
     timeout |-> 300, enable_caching |-> TRUE]

initialize_tools ==
    [crm_api |-> [base_url |-> "https://api.example.com/crm",
                  endpoints |-> <<"accounts", "contacts", "opportunities">>,
                  auth |-> "bearer_token"],
     sales_api |-> [base_url |-> "https://api.example.com/sales",
                    endpoints |-> <<"revenue", "forecasts", "analytics">>,
                    auth |-> "api_key"]]

\* __init__: None and the empty dict are falsy, so both get the default
CUGAAPIAgent(config) ==
    [state |-> "live",
     config |-> IF config = None THEN load_default_config ELSE config,
     tools |-> initialize_tools,
     lists |-> << << >> >>,
     execution_history |-> 1]

handle_account_query(self, task) ==
    [status |-> "success",
     task_type |-> "account_query",
     api_calls |-> << [endpoint |-> "/crm/accounts", method |-> "GET",
                       params |-> [sort |-> "revenue", order |-> "desc"],
                       status |-> 200] >>,
     data |-> [accounts |-> << [id |-> 1, name |-> "Global Solutions",
                                revenue |-> 2000000, industry |-> "Technology"],
                               [id |-> 2, name |-> "Acme Corp",
                                revenue |-> 1500000, industry |-> "Manufacturing"] >>,
               total_count |-> 2],
     execution_time |-> "1.8s",
     mode |-> self.config.reasoning_mode]

\* growth_rate is the float 15.3, written here by its repr
handle_sales_query(self, task) ==
    [status |-> "success",
     task_type |-> "sales_query",
     api_calls |-> << [endpoint |-> "/sales/revenue", method |-> "GET",
                       params |-> [period |-> "Q4", year |-> 2024],
                       status |-> 200] >>,
     data |-> [total_revenue |-> 5500000,
               growth_rate |-> "15.3",
               top_products |-> << [name |-> "Product A", revenue |-> 2000000],
                                   [name |-> "Product B", revenue |-> 1800000] >>],
     execution_time |-> "2.1s",
     mode |-> self.config.reasoning_mode]

simulate_execution(self, task) ==
    IF Contains(<<"a","c","c","o","u","n","t">>, lower(task))
    THEN handle_account_query(self, task)
    ELSE IF \/ Contains(<<"r","e","v","e","n","u","e">>, lower(task))
            \/ Contains(<<"s","a","l","e","s">>, lower(task))
    THEN handle_sales_query(self, task)
    ELSE [status |-> "success", message |-> "Task executed successfully",
          data |-> << >>, execution_time |-> "1.5s"]

HistoryEntry(task, result) ==
    [task |-> task, result |-> result, timestamp |-> "2024-12-17T14:00:00Z"]

\* execute with the entry put at the front of the list
execute_prepend(self, task) ==
    IF "reasoning_mode" \notin DOMAIN self.config
    THEN [self |-> self, ret |-> None, exc |-> "KeyError"]
    ELSE LET result == simulate_execution(self, task) IN
         [self |-> [self EXCEPT !.lists[self.execution_history] =
                        << HistoryEntry(task, result) >> \o @],
          ret |-> result, exc |-> "none"]

\* execute: the banner reads config['reasoning_mode'] (KeyError when the
\* caller's config has no such key) before anything is stored
execute(self, task) ==
    IF "reasoning_mode" \notin DOMAIN self.config
    THEN [self |-> self, ret |-> None, exc |-> "KeyError"]
    ELSE LET result == simulate_execution(self, task) IN
         [self |-> [self EXCEPT !.lists[self.execution_history] =
                        Append(@, HistoryEntry(task, result))],
          ret |-> result, exc |-> "none"]

\* returns the list object itself, not a copy
get_execution_history(self) == self.execution_history

clear_history(self) ==
    [self EXCEPT !.lists = Append(@, << >>),
                 !.execution_history = Len(self.lists) + 1]

AgentConfigs ==
    { None, [reasoning_mode |-> "fast"], [mode |-> "api"] }

AgentTasks ==
    { <<"A","c","c","o","u","n","t","s">>,
      <<"S","A","L","E","S">>,
      <<"r","e","v","e","n","u","e"," ","a","c","c","o","u","n","t">>,
      <<"h","i">> }

AgentExecute ==
    /\ Len(calls) < MaxAgentCalls
    /\ \E task \in AgentTasks :
        LET out == execute(agent, task) IN
        /\ agent' = out.self
        /\ calls' = Append(calls, Event(0, "execute",
                               [task |-> task, ret |-> out.ret], NoFault, out.exc))
    /\ UNCHANGED <<clock, outdir, files, logger, nfaults, run>>

AgentClearHistory ==
    /\ Len(calls) < MaxAgentCalls
    /\ agent' = clear_history(agent)
    /\ calls' = Append(calls, Event(0, "clear_history", << >>, NoFault, "none"))
    /\ UNCHANGED <<clock, outdir, files, logger, nfaults, run>>

\* seen is what the caller reads in the returned list when it gets it
AgentGetExecutionHistory ==
    /\ Len(calls) < MaxAgentCalls
    /\ LET ret == get_execution_history(agent) IN
        calls' = Append(calls, Event(0, "get_execution_history",
                            [ret |-> ret, seen |-> agent.lists[ret]], NoFault, "none"))
    /\ UNCHANGED <<clock, outdir, files, logger, nfaults, run, agent>>

InitAgent ==
    /\ clock = 0
    /\ outdir = "absent"
    /\ files = << >>
    /\ logger = [h \in {1} |-> NoLogger]
    /\ calls = << >>
    /\ nfaults = 0
    /\ run = NoRun
    /\ \E config \in AgentConfigs : agent = CUGAAPIAgent(config)

NextAgent ==
    \/ AgentExecute
    \/ AgentClearHistory
    \/ AgentGetExecutionHistory

SpecAgent == InitAgent /\ [][NextAgent]_vars

\* the index of the last clear_history among the first n calls, 0 if none
LastClear(n) ==
    IF \E i \in 1..n : calls[i].op = "clear_history"
    THEN CHOOSE i \in 1..n :
            /\ calls[i].op = "clear_history"
            /\ \A j \in (i + 1)..n : calls[j].op # "clear_history"
    ELSE 0

\* one entry per execute call that returned among calls LastClear(n)+1..n,
\* in call order, each with the task given and the result returned
RECURSIVE EntriesFrom(_, _)
EntriesFrom(i, n) ==
    IF i > n THEN << >>
    ELSE (IF calls[i].op = "execute" /\ calls[i].exc = "none"
          THEN << HistoryEntry(calls[i].args.task, calls[i].args.ret) >>
          ELSE << >>)
         \o EntriesFrom(i + 1, n)

ExpectedHistory(n) == EntriesFrom(LastClear(n) + 1, n)

\* C22: after any sequence of execute and clear_history calls, the list that
\* get_execution_history returns holds exactly one entry per execute call
\* that returned since the most recent clear_history (since construction if
\* there was none), in call order, each pairing the task with the result that
\* execute returned for it; an execute call that raised added no entry.
C22_HistoryMatchesCalls ==
    /\ agent.lists[get_execution_history(agent)] = ExpectedHistory(Len(calls))
    /\ \A i \in 1..Len(calls) :
        calls[i].op = "get_execution_history"
            => calls[i].args.seen = ExpectedHistory(i - 1)

C22_Witness ==
    /\ Len(calls) = 5
    /\ calls[1].op = "execute" /\ calls[1].exc = "none"
    /\ calls[2].op = "clear_history"
    /\ calls[3].op = "execute" /\ calls[3].args.ret.execution_time = "1.8s"
    /\ calls[4].op = "execute" /\ calls[4].args.ret.execution_time = "1.5s"
    /\ calls[5].op = "get_execution_history"
    /\ Len(calls[5].args.seen) = 2
    /\ calls[5].args.seen[1].task = calls[3].args.task
    /\ calls[5].args.seen[2].result = calls[4].args.ret

(***************************************************************************)
(* The interactive session of main.py: the while loop, one pass per step.  *)
(* calls records each pass (what console.input did, the branch taken, what *)
(* was caught and what got out); run is the session's status.              *)
(***************************************************************************)
MaxInputs == 3

SessionPass(kind) ==
    /\ Running /\ Current.op = "interactive"
    /\ Len(calls) < MaxInputs
    /\ \E input \in Inputs :
        /\ input.kind = kind
        /\ LET out == interactive(input) IN
            /\ calls' = Append(calls, Event(0, "interactive",
                                   [input |-> input, did |-> out.did,
                                    caught |-> out.caught, loop |-> out.loop],
                                   NoFault, out.exc))
            /\ run' = CASE out.loop = "break" -> Advance
                        [] out.loop = "raise" -> Crash
                        [] OTHER -> run
    /\ UNCHANGED <<clock, outdir, files, logger, nfaults, agent>>

\* console.input returns a line
SessionLine == SessionPass("line")
\* Ctrl-C while console.input waits
SessionInterrupt == SessionPass("KeyboardInterrupt")
\* console.input raises, for instance EOFError on a closed stdin
SessionReadError == SessionPass("Exception")

InitSession ==
    /\ clock = 0
    /\ outdir = "absent"
    /\ files = << >>
    /\ logger = [h \in {1} |-> NoLogger]
    /\ calls = << >>
    /\ nfaults = 0
    /\ agent = NoAgent
    /\ run = [name |-> "main.interactive",
              script |-> << Stmt("interactive", NoArgs) >>,
              pc |-> 1, status |-> "running"]

NextSession ==
    \/ SessionLine
    \/ SessionInterrupt
    \/ SessionReadError

SpecSession == InitSession /\ [][NextSession]_vars

IsLine(i) == calls[i].args.input.kind = "line"
LineOf(i) == calls[i].args.input.text
IsExitLine(i) == IsLine(i) /\ lower(LineOf(i)) \in { <<"e","x","i","t">>, <<"q","u","i","t">> }
IsCommandLine(i) ==
    IsLine(i) /\ lower(LineOf(i)) \in { <<"c","o","n","f","i","g">>, <<"h","e","l","p">> }
IsBlankLine(i) == IsLine(i) /\ strip(LineOf(i)) = << >>
Interrupted(i) == calls[i].args.caught = "KeyboardInterrupt"

\* C23: the session loop has ended exactly when some pass read 'exit' or
\* 'quit' (ignoring case) or had a KeyboardInterrupt raised; 'config',
\* 'help' and blank lines never reach execute_task; every other non-blank
\* line is executed as a task, once, in its own pass; and a pass in which
\* any other exception was raised, while reading or executing, reported it
\* and left the loop running.
C23_SessionLoop ==
    /\ run.status # "running"
        <=> \E i \in 1..Len(calls) : IsExitLine(i) \/ Interrupted(i)
    /\ \A i \in 1..Len(calls) :
        /\ (IsCommandLine(i) \/ IsBlankLine(i)) => calls[i].args.did # "execute_task"
        /\ (IsLine(i) /\ ~IsExitLine(i) /\ ~IsCommandLine(i) /\ ~IsBlankLine(i))
            => calls[i].args.did = "execute_task"
        /\ calls[i].args.caught = "Exception"
            => calls[i].exc = "none" /\ calls[i].args.loop = "continue"

====
